---- MODULE Spec2Model ----
(***************************************************************************)
(* Model of the soliplex configuration resolution engine:                  *)
(*   - secrets.get_secret: the secret source fallback chain                *)
(*   - InstallationConfig.resolve_environment: the environment overlay     *)
(*   - _find_configs / _load_*_configs: multi-path discovery               *)
(*   - the lazily cached collections and reload_configurations             *)
(***************************************************************************)
EXTENDS FiniteSets, Integers, Sequences, TLC

VARIABLES
    \* ---- secrets.py ----
    sources,          \* SecretConfig.sources: sequence of secret sources
    os_environ,       \* os.environ: function from a set of names to values
    files,            \* secret files: function from the readable paths to text
    commands,         \* behaviour of each command run by a subprocess source
    secretResult,     \* outcome of the last secrets.get_secret call
    _resolved,        \* the _resolved field of the SecretConfig
    \* ---- InstallationConfig.resolve_environment ----
    environment,      \* InstallationConfig.environment, in dict order
    dotenv_env,       \* the values of the .env file next to the installation
    envResult,        \* outcome of the last resolve_environment call
    \* ---- discovery of room and completion configs ----
    roomFs,           \* the files under room_paths
    compFs,           \* the files under completion_paths
    loadResult,       \* outcome of the last _load_*_configs call
    \* ---- InstallationConfig: cached collections ----
    oidcFs,           \* the config.yaml documents under oidc_paths
    _oidc_auth_system_configs,
    _room_configs,
    _completion_configs,
    op,               \* the last call made on the installation, its outcome
    loaderRan,        \* per collection: its loader has run in a property
                      \* access since the last reload_configurations call
    firstAccess,      \* per collection: how its first property access since
                      \* the last reload_configurations call ended
    reloadedRooms,    \* what room discovery gave at the last successful reload
    \* ---- reload_configurations running beside readers ----
    pc,               \* how far a running reload_configurations has got
    reloads,          \* number of reload_configurations calls started
    gen,              \* per collection: the reload that loaded the cached value
    observed,         \* what a reader has last read from the three properties
    \* ---- secrets.check_secrets ----
    secret_configs,   \* the list of SecretConfig handed to check_secrets
    checkResult,      \* outcome of the last check_secrets call
    \* ---- ToolConfig.tool_requires ----
    tool_params,      \* inspect.signature(self.tool).parameters, in order
    requiresResult,   \* outcome of the last tool_requires access
    \* ---- the module-level registries of config.py ----
    TOOL_CONFIG_CLASSES_BY_TOOL_NAME,
    MCP_TOOLSET_CONFIG_CLASSES_BY_KIND,
    config_SECRET_GETTERS_BY_KIND,   \* SECRET_GETTERS_BY_KIND of config.py
    lastRegistered,   \* per registry and key: the latest meta registration
    loads,            \* number of installation meta loads in this process
    regCall,          \* the last call that wrote or read a registry
    \* ---- construction of configuration objects ----
    built,            \* the last construction: its arguments and outcome
    \* ---- the start-up sequence ----
    agent_config,     \* the AgentConfig of a room built by the reload
    \* ---- agents.py ----
    _agent_cache,     \* agent_config.id -> the agent built for it
    agents_built,     \* agent_config.id -> number of agents built for it
    agentCall         \* the last call of get_agent_from_configs

secretVars == <<sources, files, commands, secretResult, _resolved>>

envVars == <<environment, dotenv_env, envResult>>

fsVars == <<roomFs, compFs>>

cacheVars == <<oidcFs, _oidc_auth_system_configs, _room_configs,
               _completion_configs, op, loaderRan, firstAccess, reloadedRooms>>

concVars == <<pc, reloads, gen, observed>>

checkVars == <<secret_configs, checkResult>>

\* the state of the parts of the program modelled further down
toolVars == <<tool_params, requiresResult>>

registryVars ==
    <<TOOL_CONFIG_CLASSES_BY_TOOL_NAME, MCP_TOOLSET_CONFIG_CLASSES_BY_KIND,
      config_SECRET_GETTERS_BY_KIND, lastRegistered, loads, regCall>>

constructVars == <<built>>

startupVars == <<agent_config>>

agentVars == <<_agent_cache, agents_built, agentCall>>

moreVars == <<constructVars, startupVars, agentVars>>

laterVars == <<checkVars, toolVars, registryVars, moreVars>>

vars == <<sources, os_environ, files, commands, secretResult, _resolved,
          environment, dotenv_env, envResult,
          roomFs, compFs, loadResult,
          oidcFs, _oidc_auth_system_configs, _room_configs,
          _completion_configs, op, loaderRan, firstAccess, reloadedRooms,
          pc, reloads, gen, observed,
          secret_configs, checkResult,
          tool_params, requiresResult,
          TOOL_CONFIG_CLASSES_BY_TOOL_NAME, MCP_TOOLSET_CONFIG_CLASSES_BY_KIND,
          config_SECRET_GETTERS_BY_KIND, lastRegistered, loads, regCall,
          built, agent_config, _agent_cache, agents_built, agentCall>>

\* ------------------------------------------------------------------------
\* Bounds
\* ------------------------------------------------------------------------
MaxSources == 2

\* number of search roots in room_paths / completion_paths
MaxRoots == 2

\* number of entries a search root directory can list
MaxSubdirs == 2

\* number of files and directories in a file tree
MaxFsEntries == 3

\* number of reload_configurations calls made beside the readers
MaxReloads == 2

MaxSecrets == 3

MaxParams == 3

MaxMetaEntries == 2

MaxLoads == 2

MaxFileTokens == 2

\* Names used for environment variables, file paths and commands
Names == {"a", "b"}

\* n_chars values of the random_chars sources of the model
NChars == {1, 16}

\* A secret value: where it comes from ("env", "file", "out", "urandom"),
\* the name of the variable, file or command, and for random bytes the
\* length of the hex string.
NoValue == [from |-> "", s |-> "", hexlen |-> 0]

Value(from, s) == [from |-> from, s |-> s, hexlen |-> 0]

\* the sequences over S of length at most n
SeqsUpTo(S, n) == UNION {[1..k -> S] : k \in 0..n}

\* ------------------------------------------------------------------------
\* Secret sources (config.py) and their getters (secrets.py)
\* ------------------------------------------------------------------------
EnvVarSecretSource(name) == [kind |-> "env_var", arg |-> name, n_chars |-> 0]

FilePathSecretSource(path) == [kind |-> "file_path", arg |-> path, n_chars |-> 0]

SubprocessSecretSource(cmd) == [kind |-> "subprocess", arg |-> cmd, n_chars |-> 0]

RandomCharsSecretSource(n) == [kind |-> "random_chars", arg |-> "", n_chars |-> n]

SecretSource ==
    {EnvVarSecretSource(n) : n \in Names}
        \cup {FilePathSecretSource(n) : n \in Names}
        \cup {SubprocessSecretSource(n) : n \in Names}
        \cup {RandomCharsSecretSource(n) : n \in NChars}

\* What running a command does: the OS cannot spawn it, it exits with a
\* non-zero status, it exits with status 0 and prints nothing, or it exits
\* with status 0 and prints some text.
CommandBehaviours == {"nospawn", "nonzero", "empty", "output"}

Returned(v) == [status |-> "ok", value |-> v, exc |-> "", source |-> 0]

\* a SecretError subclass raised by the getter of source i
RaisedSecretError(type, i) ==
    [status |-> "SecretError", value |-> NoValue, exc |-> type, source |-> i]

\* an exception that is not a SecretError
RaisedOther(type, i) ==
    [status |-> "raise", value |-> NoValue, exc |-> type, source |-> i]

get_env_var_secret(source, i) ==
    IF source.arg \in DOMAIN os_environ
    THEN Returned(os_environ[source.arg])
    ELSE RaisedSecretError("SecretEnvVarNotFound", i)

get_file_path_secret(source, i) ==
    IF source.arg \in DOMAIN files
    THEN Returned(files[source.arg])
    ELSE RaisedSecretError("SecretFilePathNotFound", i)

\* subprocess.check_output raises OSError when the command cannot be
\* spawned and CalledProcessError (not an OSError) on a non-zero exit status
get_subprocess_secret(source, i) ==
    LET behaviour == commands[source.arg] IN
    IF behaviour = "nospawn"
    THEN RaisedSecretError("SecretSubprocessError", i)
    ELSE IF behaviour = "nonzero"
    THEN RaisedOther("CalledProcessError", i)
    ELSE IF behaviour = "empty"
    THEN RaisedSecretError("SecretSubprocessError", i)
    ELSE Returned(Value("out", source.arg))

\* the bytes are returned without hex encoding
get_random_chars_secret_bytes(source, i) ==
    Returned([from |-> "urandom", s |-> "", hexlen |-> source.n_chars])

\* os.urandom(source.n_chars).hex(): two hex digits for every byte
get_random_chars_secret(source, i) ==
    Returned([from |-> "urandom", s |-> "", hexlen |-> 2 * source.n_chars])

\* SECRET_GETTERS_BY_KIND[source.kind](source)
SECRET_GETTERS_BY_KIND(source, i) ==
    CASE source.kind = "env_var" -> get_env_var_secret(source, i)
      [] source.kind = "file_path" -> get_file_path_secret(source, i)
      [] source.kind = "subprocess" -> get_subprocess_secret(source, i)
      [] source.kind = "random_chars" -> get_random_chars_secret(source, i)

\* The loop of get_secret from source i on, with the failures collected so
\* far.  The result records the sources whose getter was invoked.
RECURSIVE GetSecretLoop(_, _, _)
GetSecretLoop(srcs, i, excs) ==
    IF i > Len(srcs)
    THEN IF excs = <<>>
         THEN \* an ExceptionGroup cannot be built from an empty list
              [status |-> "raise", value |-> NoValue,
               excs |-> excs, raised |-> "ValueError", invoked |-> i - 1]
         ELSE [status |-> "SecretSourcesFailed", value |-> NoValue,
               excs |-> excs, raised |-> "SecretSourcesFailed",
               invoked |-> i - 1]
    ELSE LET r == SECRET_GETTERS_BY_KIND(srcs[i], i) IN
         IF r.status = "ok"
         THEN [status |-> "ok", value |-> r.value,
               excs |-> excs, raised |-> "", invoked |-> i]
         ELSE IF r.status = "SecretError"
         THEN GetSecretLoop(srcs, i + 1, Append(excs, r))
         ELSE [status |-> "raise", value |-> NoValue,
               excs |-> excs, raised |-> r.exc, invoked |-> i]

get_secret(srcs) == GetSecretLoop(srcs, 1, <<>>)

NotCalled ==
    [status |-> "none", value |-> NoValue, excs |-> <<>>,
     raised |-> "", invoked |-> 0]

\* the SecretConfig after get_secret: 'source, *sources = sources' rebinds
\* the local name only, and no attribute of secret_config is assigned
SecretConfigAfterGetSecret(srcs, resolved, result) ==
    [sources |-> srcs, _resolved |-> resolved]

\* secrets.get_secret(secret_config)
GetSecret ==
    /\ secretResult' = get_secret(sources)
    /\ sources' =
           SecretConfigAfterGetSecret(sources, _resolved,
                                      get_secret(sources)).sources
    /\ _resolved' =
           SecretConfigAfterGetSecret(sources, _resolved,
                                      get_secret(sources))._resolved
    /\ UNCHANGED <<os_environ, files, commands>>
    /\ UNCHANGED envVars
    /\ UNCHANGED <<fsVars, loadResult, cacheVars, concVars>>
    /\ UNCHANGED laterVars

\* a SecretConfig: its name and its sources
SecretConfig(secret_name, srcs) ==
    [secret_name |-> secret_name, sources |-> srcs]

\* The loop of check_secrets from config i on.  'except SecretError' catches
\* SecretSourcesFailed; any other exception leaves check_secrets at once.
RECURSIVE CheckSecretsLoop(_, _, _, _)
CheckSecretsLoop(configs, i, failed_names, excs) ==
    IF i > Len(configs)
    THEN IF failed_names # <<>>
         THEN [status |-> "SecretsNotFound", raised |-> "SecretsNotFound",
               secret_names |-> failed_names, excs |-> excs,
               attempted |-> i - 1]
         ELSE [status |-> "ok", raised |-> "",
               secret_names |-> <<>>, excs |-> <<>>, attempted |-> i - 1]
    ELSE LET r == get_secret(configs[i].sources) IN
         IF r.status = "ok"
         THEN CheckSecretsLoop(configs, i + 1, failed_names, excs)
         ELSE IF r.status = "SecretSourcesFailed"
         THEN CheckSecretsLoop(
                  configs, i + 1,
                  Append(failed_names, configs[i].secret_name),
                  Append(excs, [secret_name |-> configs[i].secret_name,
                                excs |-> r.excs]))
         ELSE [status |-> "raise", raised |-> r.raised,
               secret_names |-> <<>>, excs |-> <<>>, attempted |-> i]

check_secrets(configs) == CheckSecretsLoop(configs, 1, <<>>, <<>>)

CheckNotCalled ==
    [status |-> "none", raised |-> "", secret_names |-> <<>>,
     excs |-> <<>>, attempted |-> 0]

\* secrets.check_secrets(secret_configs)
CheckSecrets ==
    /\ checkResult' = check_secrets(secret_configs)
    /\ UNCHANGED <<secret_configs, os_environ, secretVars, envVars>>
    /\ UNCHANGED <<fsVars, loadResult, cacheVars, concVars>>
    /\ UNCHANGED <<toolVars, registryVars, moreVars>>

\* ------------------------------------------------------------------------
\* Multi-path discovery (config.py): _load_config_yaml, _find_configs,
\* _load_room_configs, _load_completion_configs
\* ------------------------------------------------------------------------
\* ids declared by room / completion documents
Ids == {"r1", "r2"}

NoId == ""

\* A YAML document: it does not parse, it parses to something that is not
\* a map, or it parses to a map with or without an "id" key.  The body is
\* the rest of the map ("invalid": from_yaml raises on it, e.g. no agent).
MissingDoc == [shape |-> "missing", id |-> NoId, body |-> ""]

PresentDocs ==
    {[shape |-> "unparseable", id |-> NoId, body |-> ""],
     [shape |-> "notmap", id |-> NoId, body |-> ""],
     [shape |-> "map", id |-> NoId, body |-> "A"]}
        \cup {[shape |-> "map", id |-> i, body |-> b] :
                 i \in Ids, b \in {"A", "B", "invalid"}}

\* A file tree is a function from the positions that exist to entries.
\* Position <<r, 0>> is the file root_r/filename_yaml; position <<r, n>>,
\* n >= 1, is the entry named n listed in the directory root_r.
OwnPositions == {<<r, 0>> : r \in 1..MaxRoots}

SubPositions == {<<r, n>> : r \in 1..MaxRoots, n \in 1..MaxSubdirs}

OwnEntries == {[kind |-> "config", doc |-> d] : d \in PresentDocs}

SubEntries ==
    {[kind |-> "file", doc |-> MissingDoc]}
        \cup {[kind |-> "dir", doc |-> d] : d \in PresentDocs \cup {MissingDoc}}

\* fs is a file tree with at most MaxFsEntries entries
IsFsState(fs) ==
    \E O \in SUBSET OwnPositions, U \in SUBSET SubPositions :
        /\ Cardinality(O) + Cardinality(U) <= MaxFsEntries
        /\ \E o \in [O -> OwnEntries], u \in [U -> SubEntries] : fs = o @@ u

EmptyFs == [p \in {} |-> [kind |-> "file", doc |-> MissingDoc]]

\* _load_config_yaml(config_path): the document, or the exception raised
NoSuchConfig(path) == [raised |-> "NoSuchConfig", path |-> path, doc |-> MissingDoc]

FromYamlException(path) ==
    [raised |-> "FromYamlException", path |-> path, doc |-> MissingDoc]

\* a document that does not parse to a map is treated as absent
_load_config_yaml_skip_invalid(fs, path, isfile) ==
    IF ~isfile \/ fs[path].doc.shape \in {"unparseable", "notmap"}
    THEN NoSuchConfig(path)
    ELSE [raised |-> "", path |-> path, doc |-> fs[path].doc]

_load_config_yaml(fs, path, isfile) ==
    IF ~isfile
    THEN NoSuchConfig(path)
    ELSE IF fs[path].doc.shape \in {"unparseable", "notmap"}
    THEN FromYamlException(path)
    ELSE [raised |-> "", path |-> path, doc |-> fs[path].doc]

\* config_path.is_file() for to_search / filename_yaml
OwnIsFile(fs, r) == <<r, 0>> \in DOMAIN fs

\* (sub / filename_yaml).is_file() for a listed entry
SubIsFile(fs, p) == fs[p].kind = "dir" /\ fs[p].doc.shape # "missing"

\* to_search.glob("*"): the names listed in root r
Glob(fs, r) == {n \in 1..MaxSubdirs : <<r, n>> \in DOMAIN fs}

\* some other order in which the file system may list the names
RECURSIVE unsorted(_)
unsorted(S) ==
    IF S = {}
    THEN <<>>
    ELSE LET m == CHOOSE x \in S : \A y \in S : x >= y IN
         <<m>> \o unsorted(S \ {m})

RECURSIVE sorted(_)
sorted(S) ==
    IF S = {}
    THEN <<>>
    ELSE LET m == CHOOSE x \in S : \A y \in S : x <= y IN
         <<m>> \o sorted(S \ {m})

\* the sub-directory part of _find_configs: what the generator produces for
\* the listed names, in order (a raised exception ends the sequence)
RECURSIVE FindInSubs(_, _, _)
FindInSubs(fs, r, names) ==
    IF names = <<>>
    THEN <<>>
    ELSE LET p == <<r, Head(names)>> IN
         IF fs[p].kind = "dir"
         THEN LET loaded == _load_config_yaml(fs, p, SubIsFile(fs, p)) IN
              IF loaded.raised = "NoSuchConfig"
              THEN FindInSubs(fs, r, Tail(names))
              ELSE IF loaded.raised # ""
              THEN <<loaded>>
              ELSE <<loaded>> \o FindInSubs(fs, r, Tail(names))
         ELSE FindInSubs(fs, r, Tail(names))

\* _find_configs(to_search, filename_yaml) for root r
_find_configs(fs, r) ==
    LET loaded == _load_config_yaml(fs, <<r, 0>>, OwnIsFile(fs, r)) IN
    IF loaded.raised = "NoSuchConfig"
    THEN FindInSubs(fs, r, sorted(Glob(fs, r)))
    ELSE <<loaded>>

\* the documents of all roots, in the order of room_paths
RECURSIVE FindAll(_, _)
FindAll(fs, r) ==
    IF r > MaxRoots THEN <<>> ELSE _find_configs(fs, r) \o FindAll(fs, r + 1)

EmptyDict == [i \in {} |-> [id |-> NoId, body |-> "", path |-> <<0, 0>>]]

\* RoomConfig.from_yaml / CompletionConfig.from_yaml
from_yaml(config_path, config_yaml) ==
    [id |-> config_yaml.id, body |-> config_yaml.body, path |-> config_path]

Loaded(configs) == [status |-> "ok", raised |-> "", path |-> <<0, 0>>, configs |-> configs]

LoadRaised(type, path) ==
    [status |-> "raise", raised |-> type, path |-> path, configs |-> EmptyDict]

\* a later document replaces an earlier one with the same id
KeepFirstOverwrite(configs, config_id) == FALSE

\* 'config_id not in room_configs' fails: the document is dropped
KeepFirst(configs, config_id) == config_id \in DOMAIN configs

\* the body of the loops of _load_room_configs / _load_completion_configs
RECURSIVE LoadLoop(_, _, _)
LoadLoop(found, i, configs) ==
    IF i > Len(found)
    THEN Loaded(configs)
    ELSE LET item == found[i] IN
         IF item.raised # ""
         THEN LoadRaised(item.raised, item.path)
         ELSE IF item.doc.id = NoId
         THEN LoadRaised("KeyError", item.path)
         ELSE IF KeepFirst(configs, item.doc.id)
         THEN LoadLoop(found, i + 1, configs)
         ELSE IF item.doc.body = "invalid"
         THEN LoadRaised("FromYamlException", item.path)
         ELSE LoadLoop(found, i + 1,
                  [k \in DOMAIN configs \cup {item.doc.id} |->
                      IF k = item.doc.id
                      THEN from_yaml(item.path, item.doc)
                      ELSE configs[k]])

\* a loop that constructs every document before it looks at the id
RECURSIVE LoadLoopConstructingAll(_, _, _)
LoadLoopConstructingAll(found, i, configs) ==
    IF i > Len(found)
    THEN Loaded(configs)
    ELSE LET item == found[i] IN
         IF item.raised # ""
         THEN LoadRaised(item.raised, item.path)
         ELSE IF item.doc.id = NoId
         THEN LoadRaised("KeyError", item.path)
         ELSE IF item.doc.body = "invalid"
         THEN LoadRaised("FromYamlException", item.path)
         ELSE IF KeepFirst(configs, item.doc.id)
         THEN LoadLoopConstructingAll(found, i + 1, configs)
         ELSE LoadLoopConstructingAll(found, i + 1,
                  [k \in DOMAIN configs \cup {item.doc.id} |->
                      IF k = item.doc.id
                      THEN from_yaml(item.path, item.doc)
                      ELSE configs[k]])

_load_room_configs_constructing_all(fs) ==
    LoadLoopConstructingAll(FindAll(fs, 1), 1, EmptyDict)

_load_room_configs(fs) == LoadLoop(FindAll(fs, 1), 1, EmptyDict)

_load_completion_configs(fs) == LoadLoop(FindAll(fs, 1), 1, EmptyDict)

NotLoaded == [op |-> "none", result |-> LoadRaised("", <<0, 0>>)]

LoadRoomConfigs ==
    /\ loadResult' = [op |-> "_load_room_configs",
                      result |-> _load_room_configs(roomFs)]
    /\ UNCHANGED <<fsVars, os_environ, secretVars, envVars>>
    /\ UNCHANGED <<cacheVars, concVars>>
    /\ UNCHANGED laterVars

LoadCompletionConfigs ==
    /\ loadResult' = [op |-> "_load_completion_configs",
                      result |-> _load_completion_configs(compFs)]
    /\ UNCHANGED <<fsVars, os_environ, secretVars, envVars>>
    /\ UNCHANGED <<cacheVars, concVars>>
    /\ UNCHANGED laterVars

\* ------------------------------------------------------------------------
\* Environment values and resolve_environment (config.py)
\* ------------------------------------------------------------------------
\* An environment value is None or a string; a string is a sequence of
\* tokens, so that the "file:" prefix can be tested and stripped.
PyNone == [isnone |-> TRUE, toks |-> <<>>]

Str(toks) == [isnone |-> FALSE, toks |-> toks]

FILE_PREFIX == "file:"

\* str(config_path.parent) followed by the path separator
ConfigDir == "/cfg/"

\* keys of the environment mapping
EnvKeys == {"a", "b", "c"}

DeclaredValues ==
    {PyNone, Str(<<"d">>), Str(<<FILE_PREFIX, "d">>),
     Str(<<FILE_PREFIX, FILE_PREFIX, "d">>)}

\* python-dotenv gives None for a key written without "="
DotenvValues == {PyNone, Str(<<"o">>), Str(<<FILE_PREFIX, "o">>)}

\* the process environment's values carry the prefix, so that values taken
\* from it go through the substitution as well
ProcessValues == {Str(<<FILE_PREFIX, "p">>)}

startswith(str, prefix) == Len(str.toks) >= 1 /\ Head(str.toks) = prefix

\* the prefix is kept in front of the path
resolve_file_prefix_keeping_prefix(config_str) ==
    IF startswith(config_str, FILE_PREFIX)
    THEN Str(<<FILE_PREFIX, ConfigDir>> \o Tail(config_str.toks))
    ELSE config_str

\* resolve_file_prefix on a string
resolve_file_prefix(config_str) ==
    IF startswith(config_str, FILE_PREFIX)
    THEN Str(<<ConfigDir>> \o Tail(config_str.toks))
    ELSE config_str

MissingEnvVar(env_name) == [raised |-> TRUE, value |-> PyNone, env_var |-> env_name]

EntryValue(v) == [raised |-> FALSE, value |-> v, env_var |-> ""]

\* the declared value is consulted before the .env overlay
resolve_environment_entry_declared_first(env_name, env_value, dotenv) ==
    IF ~env_value.isnone
    THEN EntryValue(env_value)
    ELSE IF env_name \in DOMAIN dotenv
    THEN EntryValue(dotenv[env_name])
    ELSE IF env_name \in DOMAIN os_environ
    THEN EntryValue(os_environ[env_name])
    ELSE MissingEnvVar(env_name)

resolve_environment_entry(env_name, env_value, dotenv) ==
    IF env_name \in DOMAIN dotenv
    THEN EntryValue(dotenv[env_name])
    ELSE IF env_value.isnone
    THEN IF env_name \in DOMAIN os_environ
         THEN EntryValue(os_environ[env_name])
         ELSE MissingEnvVar(env_name)
    ELSE EntryValue(env_value)

\* The loop of resolve_environment over environment.items(): the locals
\* resolved, failed and excs after the entries from i on have been visited.
RECURSIVE ResolveLoop(_, _, _)
ResolveLoop(env, i, acc) ==
    IF i > Len(env)
    THEN acc
    ELSE LET r == resolve_environment_entry(env[i].key, env[i].value,
                                            dotenv_env) IN
         IF r.raised
         THEN ResolveLoop(env, i + 1,
                  [acc EXCEPT !.excs = Append(@, r),
                              !.failed = Append(@, r.env_var)])
         ELSE ResolveLoop(env, i + 1,
                  [acc EXCEPT !.resolved =
                       Append(@, [key |-> env[i].key, value |-> r.value])])

\* a loop that raises at the first key that cannot be resolved
RECURSIVE ResolveLoopFailFast(_, _, _)
ResolveLoopFailFast(env, i, acc) ==
    IF i > Len(env) \/ acc.failed # <<>>
    THEN acc
    ELSE LET r == resolve_environment_entry(env[i].key, env[i].value,
                                            dotenv_env) IN
         IF r.raised
         THEN ResolveLoopFailFast(env, i + 1,
                  [acc EXCEPT !.excs = Append(@, r),
                              !.failed = Append(@, r.env_var)])
         ELSE ResolveLoopFailFast(env, i + 1,
                  [acc EXCEPT !.resolved =
                       Append(@, [key |-> env[i].key, value |-> r.value])])

ResolveLocalsFailFast(env) ==
    ResolveLoopFailFast(env, 1,
        [resolved |-> <<>>, failed |-> <<>>, excs |-> <<>>])

ResolveLocals(env) ==
    ResolveLoop(env, 1, [resolved |-> <<>>, failed |-> <<>>, excs |-> <<>>])

EnvNotCalled ==
    [status |-> "none", env_vars |-> <<>>, excs |-> <<>>,
     failed_keys |-> <<>>, resolved |-> <<>>, before |-> <<>>]

\* every key is replaced in the environment as soon as it is resolved
AssignedEnvironmentInPlace(env, locals) ==
    [i \in 1..Len(env) |->
        IF \E j \in 1..Len(locals.resolved) :
               /\ locals.resolved[j].key = env[i].key
               /\ ~locals.resolved[j].value.isnone
        THEN LET j == CHOOSE j \in 1..Len(locals.resolved) :
                          locals.resolved[j].key = env[i].key IN
             [key |-> env[i].key,
              value |-> resolve_file_prefix(locals.resolved[j].value)]
        ELSE env[i]]

\* The environment attribute after the call.  'self.environment = {...}' is
\* reached only when nothing was missing, and the comprehension over
\* resolved.items() is built in full before the attribute is assigned (None
\* has no startswith: the comprehension raises).
AssignedEnvironment(env, locals) ==
    IF locals.excs # <<>>
    THEN env
    ELSE IF \E i \in 1..Len(locals.resolved) : locals.resolved[i].value.isnone
    THEN env
    ELSE [i \in 1..Len(locals.resolved) |->
             [key |-> locals.resolved[i].key,
              value |-> resolve_file_prefix(locals.resolved[i].value)]]

\* InstallationConfig.resolve_environment
ResolveEnvironment ==
    LET locals == ResolveLocals(environment)
        result(status) ==
            [status |-> status,
             env_vars |-> IF status = "MissingEnvVars"
                          THEN locals.failed ELSE <<>>,
             excs |-> IF status = "MissingEnvVars" THEN locals.excs ELSE <<>>,
             failed_keys |-> locals.failed,
             resolved |-> locals.resolved,
             before |-> environment]
    IN
    /\ envResult' =
           IF locals.excs # <<>>
           THEN result("MissingEnvVars")
           ELSE IF \E i \in 1..Len(locals.resolved) :
                       locals.resolved[i].value.isnone
           THEN result("AttributeError")
           ELSE result("ok")
    /\ environment' = AssignedEnvironment(environment, locals)
    /\ UNCHANGED <<os_environ, dotenv_env>>
    /\ UNCHANGED secretVars
    /\ UNCHANGED <<fsVars, loadResult, cacheVars, concVars>>
    /\ UNCHANGED laterVars

\* ------------------------------------------------------------------------
\* InstallationConfig: the cached collections and reload_configurations
\* ------------------------------------------------------------------------
\* An oidc_paths document: shape as above, and for a map whether it has the
\* "auth_systems" key and the ids of the auth systems it lists.
OidcDoc(shape, has_key, systems) ==
    [shape |-> shape, has_key |-> has_key, systems |-> systems]

\* the loop of _load_oidc_auth_system_configs over oidc_paths
RECURSIVE OidcLoop(_, _, _)
OidcLoop(ofs, i, oas_configs) ==
    IF i > Len(ofs)
    THEN Loaded(oas_configs)
    ELSE IF ofs[i].shape = "missing"
    THEN LoadRaised("NoSuchConfig", <<i, 0>>)
    ELSE IF ofs[i].shape \in {"unparseable", "notmap"}
    THEN LoadRaised("FromYamlException", <<i, 0>>)
    ELSE IF ~ofs[i].has_key
    THEN LoadRaised("KeyError", <<i, 0>>)
    ELSE OidcLoop(ofs, i + 1,
             oas_configs \o
                 [k \in 1..Len(ofs[i].systems) |->
                     [id |-> ofs[i].systems[k], body |-> "oidc",
                      path |-> <<i, 0>>]])

_load_oidc_auth_system_configs(ofs) == OidcLoop(ofs, 1, <<>>)

\* A cached collection: None, or the collection
Unset == [set |-> FALSE, val |-> <<>>]

Cached(v) == [set |-> TRUE, val |-> v]

\* the property reloads on every access
CacheIsUnsetAlways(cache) == TRUE

\* 'self._room_configs is None'
CacheIsUnset(cache) == ~cache.set

\* the property hands out the cached map itself
dict_copy_alias(cached) == [alias |-> TRUE, val |-> cached]

\* 'self._room_configs.copy()': a new map with the same items
dict_copy(cached) == [alias |-> FALSE, val |-> cached]

\* 'return self._oidc_auth_system_configs': the cached list itself
SameObject(cached) == [alias |-> TRUE, val |-> cached]

\* the record of a call: what was called, how it ended, whether a loader
\* ran, the object handed to the caller and whether that object is the
\* cached collection itself
Call(name, status, raised, loader_ran, handle) ==
    [name |-> name, of |-> name, status |-> status, raised |-> raised,
     loader_ran |-> loader_ran, returned |-> handle.val,
     alias |-> handle.alias, after_mutation |-> FALSE]

NoHandle == [alias |-> FALSE, val |-> <<>>]

NoCall == Call("none", "ok", "", FALSE, NoHandle)

NoLoaderRan == [oidc |-> FALSE, rooms |-> FALSE, comps |-> FALSE]

NotAccessed == [seen |-> FALSE, status |-> "ok", returned |-> <<>>]

NoAccessYet ==
    [oidc |-> NotAccessed, rooms |-> NotAccessed, comps |-> NotAccessed]

\* the first access since the last reload, given the one recorded so far
FirstOf(first, call) ==
    IF first.seen
    THEN first
    ELSE [seen |-> TRUE, status |-> call.status, returned |-> call.returned]

\* the call record of a property access, noting whether the caller had just
\* changed a map it got from the same property
AfterMutation(call) ==
    [call EXCEPT !.after_mutation =
        op.name = "caller_mutation" /\ op.of = call.name]

\* a loader that raises leaves an empty collection in the cache
AccessCachingFailure(cache, loaded) ==
    IF CacheIsUnset(cache)
    THEN IF loaded.status = "ok"
         THEN [cache |-> Cached(loaded.configs), status |-> "ok",
               raised |-> "", loader_ran |-> TRUE]
         ELSE [cache |-> Cached(EmptyDict), status |-> "raise",
               raised |-> loaded.raised, loader_ran |-> TRUE]
    ELSE [cache |-> cache, status |-> "ok", raised |-> "",
          loader_ran |-> FALSE]

\* A lazily loaded property up to its return statement: the new value of
\* the cache, how the access ends and whether the loader ran
Access(cache, loaded) ==
    IF CacheIsUnset(cache)
    THEN IF loaded.status = "ok"
         THEN [cache |-> Cached(loaded.configs), status |-> "ok",
               raised |-> "", loader_ran |-> TRUE]
         ELSE [cache |-> cache, status |-> "raise",
               raised |-> loaded.raised, loader_ran |-> TRUE]
    ELSE [cache |-> cache, status |-> "ok", raised |-> "",
          loader_ran |-> FALSE]

\* InstallationConfig.oidc_auth_system_configs
AccessOidc ==
    LET a == Access(_oidc_auth_system_configs,
                    _load_oidc_auth_system_configs(oidcFs))
        call == Call("oidc_auth_system_configs", a.status, a.raised,
                     a.loader_ran,
                     IF a.status = "ok"
                     THEN SameObject(a.cache.val) ELSE NoHandle)
    IN
    /\ _oidc_auth_system_configs' = a.cache
    /\ op' = AfterMutation(call)
    /\ loaderRan' = [loaderRan EXCEPT !.oidc = @ \/ a.loader_ran]
    /\ firstAccess' = [firstAccess EXCEPT !.oidc = FirstOf(@, call)]
    /\ UNCHANGED <<_room_configs, _completion_configs, reloadedRooms>>
    /\ UNCHANGED <<oidcFs, fsVars, concVars>>
    /\ UNCHANGED <<os_environ, secretVars, envVars, loadResult>>
    /\ UNCHANGED laterVars

\* InstallationConfig.room_configs
AccessRooms ==
    LET a == Access(_room_configs, _load_room_configs(roomFs))
        call == Call("room_configs", a.status, a.raised, a.loader_ran,
                     IF a.status = "ok"
                     THEN dict_copy(a.cache.val) ELSE NoHandle)
    IN
    /\ _room_configs' = a.cache
    /\ op' = AfterMutation(call)
    /\ loaderRan' = [loaderRan EXCEPT !.rooms = @ \/ a.loader_ran]
    /\ firstAccess' = [firstAccess EXCEPT !.rooms = FirstOf(@, call)]
    /\ UNCHANGED <<_oidc_auth_system_configs, _completion_configs,
                   reloadedRooms>>
    /\ UNCHANGED <<oidcFs, fsVars, concVars>>
    /\ UNCHANGED <<os_environ, secretVars, envVars, loadResult>>
    /\ UNCHANGED laterVars

\* InstallationConfig.completion_configs
AccessCompletions ==
    LET a == Access(_completion_configs, _load_completion_configs(compFs))
        call == Call("completion_configs", a.status, a.raised, a.loader_ran,
                     IF a.status = "ok"
                     THEN dict_copy(a.cache.val) ELSE NoHandle)
    IN
    /\ _completion_configs' = a.cache
    /\ op' = AfterMutation(call)
    /\ loaderRan' = [loaderRan EXCEPT !.comps = @ \/ a.loader_ran]
    /\ firstAccess' = [firstAccess EXCEPT !.comps = FirstOf(@, call)]
    /\ UNCHANGED <<_oidc_auth_system_configs, _room_configs, reloadedRooms>>
    /\ UNCHANGED <<oidcFs, fsVars, concVars>>
    /\ UNCHANGED <<os_environ, secretVars, envVars, loadResult>>
    /\ UNCHANGED laterVars

\* InstallationConfig.reload_configurations: three assignments in a row, each
\* made only if its loader returns
Reload ==
    LET o == _load_oidc_auth_system_configs(oidcFs)
        r == _load_room_configs(roomFs)
        c == _load_completion_configs(compFs)
        failed == IF o.status # "ok" THEN o
                  ELSE IF r.status # "ok" THEN r
                  ELSE c
    IN
    /\ _oidc_auth_system_configs' =
           IF o.status = "ok"
           THEN Cached(o.configs) ELSE _oidc_auth_system_configs
    /\ _room_configs' =
           IF o.status = "ok" /\ r.status = "ok"
           THEN Cached(r.configs) ELSE _room_configs
    /\ _completion_configs' =
           IF o.status = "ok" /\ r.status = "ok" /\ c.status = "ok"
           THEN Cached(c.configs) ELSE _completion_configs
    /\ op' = IF failed.status = "ok"
             THEN Call("reload_configurations", "ok", "", TRUE, NoHandle)
             ELSE Call("reload_configurations", "raise", failed.raised,
                       TRUE, NoHandle)
    /\ loaderRan' = NoLoaderRan
    /\ firstAccess' = NoAccessYet
    /\ reloadedRooms' =
           IF failed.status = "ok" THEN Cached(r.configs) ELSE reloadedRooms
    /\ UNCHANGED <<oidcFs, fsVars, concVars>>
    /\ UNCHANGED <<os_environ, secretVars, envVars, loadResult>>
    /\ UNCHANGED laterVars

\* a value a caller puts into a map it got, not built by any loader
ForeignConfig == [id |-> "x", body |-> "caller", path |-> <<0, 0>>]

\* what a caller can do to a map: remove a key, add a key, rebind a key
DictMutations(d) ==
    {[k \in DOMAIN d \ {gone} |-> d[k]] : gone \in DOMAIN d}
        \cup {[k \in DOMAIN d \cup {new} |->
                  IF k = new THEN ForeignConfig ELSE d[k]] :
                 new \in Ids}

\* A caller changes the map it got from room_configs / completion_configs.
\* If that map is the cached map itself, the cache changes with it.
CallerMutates ==
    /\ op.of \in {"room_configs", "completion_configs"}
    /\ op.status = "ok"
    /\ \E m \in DictMutations(op.returned) \ {op.returned} :
          /\ op' = [op EXCEPT !.name = "caller_mutation", !.returned = m]
          /\ _room_configs' =
                 IF op.alias /\ op.of = "room_configs"
                 THEN Cached(m) ELSE _room_configs
          /\ _completion_configs' =
                 IF op.alias /\ op.of = "completion_configs"
                 THEN Cached(m) ELSE _completion_configs
    /\ UNCHANGED <<_oidc_auth_system_configs, loaderRan, firstAccess,
                   reloadedRooms>>
    /\ UNCHANGED <<oidcFs, fsVars, concVars>>
    /\ UNCHANGED <<os_environ, secretVars, envVars, loadResult>>
    /\ UNCHANGED laterVars

\* The file trees the installation is run on: one search root holding its own
\* document, or nothing at all
RootDocument(d) == [p \in {<<1, 0>>} |-> [kind |-> "config", doc |-> d]]

RoomTrees ==
    {EmptyFs}
        \cup {RootDocument([shape |-> "map", id |-> "r1", body |-> "A"]),
              RootDocument([shape |-> "map", id |-> "r1", body |-> "B"]),
              RootDocument([shape |-> "map", id |-> "r2", body |-> "A"]),
              RootDocument([shape |-> "unparseable", id |-> NoId, body |-> ""])}

CompletionTrees ==
    {RootDocument([shape |-> "map", id |-> "r1", body |-> "A"]),
     RootDocument([shape |-> "map", id |-> "r1", body |-> "B"]),
     RootDocument([shape |-> "unparseable", id |-> NoId, body |-> ""])}

OidcTrees ==
    {<<OidcDoc("missing", FALSE, <<>>)>>,
     <<OidcDoc("map", TRUE, <<"g">>)>>,
     <<OidcDoc("map", TRUE, <<"h">>)>>}

FilesChanged == Call("files_changed", "ok", "", FALSE, NoHandle)

\* somebody edits the files under room_paths
ChangeRoomFiles ==
    /\ \E t \in RoomTrees \ {roomFs} : roomFs' = t
    /\ op' = FilesChanged
    /\ UNCHANGED <<compFs, oidcFs, _oidc_auth_system_configs, _room_configs,
                   _completion_configs, loaderRan, firstAccess, reloadedRooms,
                   concVars>>
    /\ UNCHANGED <<os_environ, secretVars, envVars, loadResult>>
    /\ UNCHANGED laterVars

\* somebody edits the files under completion_paths
ChangeCompletionFiles ==
    /\ \E t \in CompletionTrees \ {compFs} : compFs' = t
    /\ op' = FilesChanged
    /\ UNCHANGED <<roomFs, oidcFs, _oidc_auth_system_configs, _room_configs,
                   _completion_configs, loaderRan, firstAccess, reloadedRooms,
                   concVars>>
    /\ UNCHANGED <<os_environ, secretVars, envVars, loadResult>>
    /\ UNCHANGED laterVars

\* somebody edits the files under oidc_paths
ChangeOidcFiles ==
    /\ \E t \in OidcTrees \ {oidcFs} : oidcFs' = t
    /\ op' = FilesChanged
    /\ UNCHANGED <<fsVars, _oidc_auth_system_configs, _room_configs,
                   _completion_configs, loaderRan, firstAccess, reloadedRooms,
                   concVars>>
    /\ UNCHANGED <<os_environ, secretVars, envVars, loadResult>>
    /\ UNCHANGED laterVars

\* ------------------------------------------------------------------------
\* reload_configurations running while other threads read the properties
\* ------------------------------------------------------------------------
Running == Call("reload_configurations", "running", "", TRUE, NoHandle)

ReloadRaised(loaded) ==
    Call("reload_configurations", "raise", loaded.raised, TRUE, NoHandle)

\* 'self._oidc_auth_system_configs = self._load_oidc_auth_system_configs()'
ReloadOidcStep ==
    LET o == _load_oidc_auth_system_configs(oidcFs) IN
    /\ pc = "idle"
    /\ reloads < MaxReloads
    /\ reloads' = reloads + 1
    /\ loaderRan' = NoLoaderRan
    /\ firstAccess' = NoAccessYet
    /\ IF o.status = "ok"
       THEN /\ _oidc_auth_system_configs' = Cached(o.configs)
            /\ gen' = [gen EXCEPT !.oidc = reloads + 1]
            /\ pc' = "oidc_assigned"
            /\ op' = Running
       ELSE /\ pc' = "idle"
            /\ op' = ReloadRaised(o)
            /\ UNCHANGED <<_oidc_auth_system_configs, gen>>
    /\ UNCHANGED <<_room_configs, _completion_configs, reloadedRooms,
                   observed>>
    /\ UNCHANGED <<oidcFs, fsVars>>
    /\ UNCHANGED <<os_environ, secretVars, envVars, loadResult>>
    /\ UNCHANGED laterVars

\* 'self._room_configs = self._load_room_configs()'
ReloadRoomsStep ==
    LET r == _load_room_configs(roomFs) IN
    /\ pc = "oidc_assigned"
    /\ IF r.status = "ok"
       THEN /\ _room_configs' = Cached(r.configs)
            /\ gen' = [gen EXCEPT !.rooms = reloads]
            /\ pc' = "rooms_assigned"
            /\ op' = Running
       ELSE /\ pc' = "idle"
            /\ op' = ReloadRaised(r)
            /\ UNCHANGED <<_room_configs, gen>>
    /\ UNCHANGED <<_oidc_auth_system_configs, _completion_configs,
                   loaderRan, firstAccess, reloadedRooms, reloads, observed>>
    /\ UNCHANGED <<oidcFs, fsVars>>
    /\ UNCHANGED <<os_environ, secretVars, envVars, loadResult>>
    /\ UNCHANGED laterVars

\* 'self._completion_configs = self._load_completion_configs()'
ReloadCompletionsStep ==
    LET c == _load_completion_configs(compFs) IN
    /\ pc = "rooms_assigned"
    /\ pc' = "idle"
    /\ IF c.status = "ok"
       THEN /\ _completion_configs' = Cached(c.configs)
            /\ gen' = [gen EXCEPT !.comps = reloads]
            /\ op' = Call("reload_configurations", "ok", "", TRUE, NoHandle)
            /\ reloadedRooms' = _room_configs
       ELSE /\ op' = ReloadRaised(c)
            /\ UNCHANGED <<_completion_configs, gen, reloadedRooms>>
    /\ UNCHANGED <<_oidc_auth_system_configs, _room_configs,
                   loaderRan, firstAccess, reloads, observed>>
    /\ UNCHANGED <<oidcFs, fsVars>>
    /\ UNCHANGED <<os_environ, secretVars, envVars, loadResult>>
    /\ UNCHANGED laterVars

NothingObserved == [read |-> FALSE, during |-> FALSE,
                    oidc |-> 0, rooms |-> 0, comps |-> 0]

\* Another thread reads the three properties one after the other, with no
\* step of the reload in between; all three are cached, so no loader runs.
ReaderReads ==
    /\ _oidc_auth_system_configs.set
    /\ _room_configs.set
    /\ _completion_configs.set
    /\ observed' = [read |-> TRUE, during |-> pc # "idle",
                    oidc |-> gen.oidc, rooms |-> gen.rooms,
                    comps |-> gen.comps]
    /\ UNCHANGED <<pc, reloads, gen>>
    /\ UNCHANGED cacheVars
    /\ UNCHANGED <<fsVars, os_environ, secretVars, envVars, loadResult>>
    /\ UNCHANGED laterVars

\* ------------------------------------------------------------------------
\* ToolConfig.tool_requires (config.py)
\* ------------------------------------------------------------------------
\* names a tool function may give its parameters
ParamNames == {"ctx", "tool_config", "query", "limit", "kwargs"}

\* the three members of ToolRequires
FASTAPI_CONTEXT == "fastapi_context"

TOOL_CONFIG == "tool_config"

BARE == "bare"

\* 'name in tool_params'
HasParam(params, name) == \E i \in 1..Len(params) : params[i] = name

RequiresReturned(v) == [status |-> "ok", value |-> v, raised |-> ""]

RequiresRaised(type) == [status |-> "raise", value |-> "", raised |-> type]

\* the context parameter is looked at before the conflict
tool_requires_ctx_first(params) ==
    IF HasParam(params, "ctx")
    THEN RequiresReturned(FASTAPI_CONTEXT)
    ELSE IF HasParam(params, "tool_config")
    THEN RequiresReturned(TOOL_CONFIG)
    ELSE RequiresReturned(BARE)

\* ToolConfig.tool_requires for a tool with these parameters
tool_requires(params) ==
    IF HasParam(params, "ctx") /\ HasParam(params, "tool_config")
    THEN RequiresRaised("ToolRequirementConflict")
    ELSE IF HasParam(params, "ctx")
    THEN RequiresReturned(FASTAPI_CONTEXT)
    ELSE IF HasParam(params, "tool_config")
    THEN RequiresReturned(TOOL_CONFIG)
    ELSE RequiresReturned(BARE)

RequiresNotCalled == [status |-> "none", value |-> "", raised |-> ""]

\* reading the tool_requires property of a ToolConfig
ToolRequires ==
    /\ requiresResult' = tool_requires(tool_params)
    /\ UNCHANGED tool_params
    /\ UNCHANGED <<os_environ, secretVars, envVars>>
    /\ UNCHANGED <<fsVars, loadResult, cacheVars, concVars>>
    /\ UNCHANGED <<checkVars, registryVars, moreVars>>

\* ------------------------------------------------------------------------
\* The registries of config.py and secrets.py, and the meta-configuration
\* ------------------------------------------------------------------------
\* A class named in the meta-configuration: the class, the key it is
\* registered under (its tool_name or kind) and, for a secret source, the
\* getter function named with it.
MetaEntry(config_klass, key, registered_func) ==
    [config_klass |-> config_klass, key |-> key,
     registered_func |-> registered_func, importable |-> TRUE]

\* a dotted name that cannot be imported
Unimportable ==
    [config_klass |-> "", key |-> "", registered_func |-> "",
     importable |-> FALSE]

SEARCH_DOCUMENTS == "soliplex.tools.search_documents"

\* TOOL_CONFIG_CLASSES_BY_TOOL_NAME as the module defines it
BuiltinToolClasses ==
    [n \in {SEARCH_DOCUMENTS} |-> "SearchDocumentsToolConfig"]

\* MCP_TOOLSET_CONFIG_CLASSES_BY_KIND as the module defines it
BuiltinMcpClasses ==
    [k \in {"stdio", "http"} |->
        IF k = "stdio"
        THEN "Stdio_MCP_ClientToolsetConfig"
        ELSE "HTTP_MCP_ClientToolsetConfig"]

BuiltinKinds == {"env_var", "file_path", "subprocess", "random_chars"}

\* config.SourceClassesByKind: built once from the four source classes
SourceClassesByKind ==
    [k \in BuiltinKinds |->
        CASE k = "env_var" -> "EnvVarSecretSource"
          [] k = "file_path" -> "FilePathSecretSource"
          [] k = "subprocess" -> "SubprocessSecretSource"
          [] k = "random_chars" -> "RandomCharsSecretSource"]

\* secrets.SECRET_GETTERS_BY_KIND as a mapping from kind to getter
secrets_SECRET_GETTERS_BY_KIND ==
    [k \in BuiltinKinds |->
        CASE k = "env_var" -> "get_env_var_secret"
          [] k = "file_path" -> "get_file_path_secret"
          [] k = "subprocess" -> "get_subprocess_secret"
          [] k = "random_chars" -> "get_random_chars_secret"]

\* what installations name under meta.tool_configs
ToolMetaEntries ==
    {MetaEntry("OtherSearchToolConfig", SEARCH_DOCUMENTS, ""),
     MetaEntry("PluginAToolConfig", "plugin.tool", ""),
     MetaEntry("PluginBToolConfig", "plugin.tool", ""),
     Unimportable}

\* what installations name under meta.mcp_toolset_configs
McpMetaEntries ==
    {MetaEntry("MyStdioToolsetConfig", "stdio", ""),
     MetaEntry("SseToolsetConfig", "sse", ""),
     Unimportable}

\* what installations name under meta.secret_sources
SecretSourceMetaEntries ==
    {MetaEntry("VaultSecretSource", "vault", "get_vault_secret"),
     MetaEntry("EnvVarSecretSource", "env_var", "get_env_var_cached"),
     Unimportable}

\* the key keeps the class it was first given
RegisterIfAbsent(registry, key, value) ==
    [k \in DOMAIN registry \cup {key} |->
        IF k \in DOMAIN registry THEN registry[k] ELSE value]

\* 'REGISTRY[key] = value'
Register(registry, key, value) ==
    [k \in DOMAIN registry \cup {key} |->
        IF k = key THEN value ELSE registry[k]]

\* 'for meta in metas: REGISTRY[meta.config_klass.<key>] = meta.config_klass'
RECURSIVE RegisterClasses(_, _, _)
RegisterClasses(registry, metas, i) ==
    IF i > Len(metas)
    THEN registry
    ELSE RegisterClasses(
             Register(registry, metas[i].key, metas[i].config_klass),
             metas, i + 1)

\* 'SECRET_GETTERS_BY_KIND[config_klass.kind] = registered_func'
RECURSIVE RegisterGetters(_, _, _)
RegisterGetters(registry, metas, i) ==
    IF i > Len(metas)
    THEN registry
    ELSE RegisterGetters(
             Register(registry, metas[i].key, metas[i].registered_func),
             metas, i + 1)

\* the keys a list of meta entries registers
KeysOf(metas) == {metas[i].key : i \in 1..Len(metas)}

\* the last entry of the list registered under the key
LastFor(metas, key) ==
    metas[CHOOSE i \in 1..Len(metas) :
              /\ metas[i].key = key
              /\ \A j \in (i + 1)..Len(metas) : metas[j].key # key]

\* the latest registrations once a list of meta entries is added
Latest(latest, metas, is_getter) ==
    [k \in DOMAIN latest \cup KeysOf(metas) |->
        IF k \in KeysOf(metas)
        THEN IF is_getter
             THEN LastFor(metas, k).registered_func
             ELSE LastFor(metas, k).config_klass
        ELSE latest[k]]

NoKeys == [tools |-> {}, mcp |-> {}, getters |-> {}]

RegCall(call, arg, status, result, registered) ==
    [call |-> call, arg |-> arg, status |-> status, result |-> result,
     registered |-> registered]

NoRegCall == RegCall("none", "", "ok", "", NoKeys)

AllImportable(metas) == \A i \in 1..Len(metas) : metas[i].importable

\* InstallationConfigMeta.from_yaml, as InstallationConfig.from_yaml calls
\* it for every installation loaded: the dotted names are imported first;
\* __post_init__ then writes the registries
LoadMeta ==
    /\ loads < MaxLoads
    /\ loads' = loads + 1
    /\ \E tool_configs \in SeqsUpTo(ToolMetaEntries, MaxMetaEntries),
          mcp_toolset_configs \in SeqsUpTo(McpMetaEntries, MaxMetaEntries),
          secret_sources \in
              SeqsUpTo(SecretSourceMetaEntries, MaxMetaEntries) :
          /\ Len(tool_configs) + Len(mcp_toolset_configs)
                 + Len(secret_sources) <= MaxMetaEntries
          /\ IF /\ AllImportable(tool_configs)
                /\ AllImportable(mcp_toolset_configs)
                /\ AllImportable(secret_sources)
             THEN /\ TOOL_CONFIG_CLASSES_BY_TOOL_NAME' =
                         RegisterClasses(TOOL_CONFIG_CLASSES_BY_TOOL_NAME,
                                         tool_configs, 1)
                  /\ MCP_TOOLSET_CONFIG_CLASSES_BY_KIND' =
                         RegisterClasses(MCP_TOOLSET_CONFIG_CLASSES_BY_KIND,
                                         mcp_toolset_configs, 1)
                  /\ config_SECRET_GETTERS_BY_KIND' =
                         RegisterGetters(config_SECRET_GETTERS_BY_KIND,
                                         secret_sources, 1)
                  /\ lastRegistered' =
                         [tools |-> Latest(lastRegistered.tools,
                                           tool_configs, FALSE),
                          mcp |-> Latest(lastRegistered.mcp,
                                         mcp_toolset_configs, FALSE),
                          getters |-> Latest(lastRegistered.getters,
                                             secret_sources, TRUE)]
                  /\ regCall' =
                         RegCall("InstallationConfigMeta.from_yaml", "", "ok",
                                 "",
                                 [tools |-> KeysOf(tool_configs),
                                  mcp |-> KeysOf(mcp_toolset_configs),
                                  getters |-> KeysOf(secret_sources)])
             ELSE /\ regCall' =
                         RegCall("InstallationConfigMeta.from_yaml", "",
                                 "raise", "FromYamlException", NoKeys)
                  /\ UNCHANGED <<TOOL_CONFIG_CLASSES_BY_TOOL_NAME,
                                 MCP_TOOLSET_CONFIG_CLASSES_BY_KIND,
                                 config_SECRET_GETTERS_BY_KIND, lastRegistered>>
    /\ UNCHANGED <<os_environ, secretVars, envVars>>
    /\ UNCHANGED <<fsVars, loadResult, cacheVars, concVars>>
    /\ UNCHANGED <<checkVars, toolVars, moreVars>>

\* tool names that room and completion documents give their tool entries
ToolNames == {SEARCH_DOCUMENTS, "plugin.tool", "rooms.other_tool"}

\* 'TOOL_CONFIG_CLASSES_BY_TOOL_NAME[tool_name]'
LookupToolClassStrict(registry, tool_name) ==
    IF tool_name \in DOMAIN registry
    THEN [status |-> "ok", result |-> registry[tool_name]]
    ELSE [status |-> "raise", result |-> "KeyError"]

\* 'TOOL_CONFIG_CLASSES_BY_TOOL_NAME.get(tool_name, ToolConfig)'
LookupToolClass(registry, tool_name) ==
    IF tool_name \in DOMAIN registry
    THEN [status |-> "ok", result |-> registry[tool_name]]
    ELSE [status |-> "ok", result |-> "ToolConfig"]

\* 'REGISTRY[kind]'
LookupByKind(registry, kind) ==
    IF kind \in DOMAIN registry
    THEN [status |-> "ok", result |-> registry[kind]]
    ELSE [status |-> "raise", result |-> "KeyError"]

RegistryFrame ==
    /\ UNCHANGED <<TOOL_CONFIG_CLASSES_BY_TOOL_NAME,
                   MCP_TOOLSET_CONFIG_CLASSES_BY_KIND,
                   config_SECRET_GETTERS_BY_KIND, lastRegistered, loads>>
    /\ UNCHANGED <<os_environ, secretVars, envVars>>
    /\ UNCHANGED <<fsVars, loadResult, cacheVars, concVars>>
    /\ UNCHANGED <<checkVars, toolVars, moreVars>>

\* extract_tool_configs on one tool entry: the class that builds the config
ExtractToolConfigs ==
    /\ \E tool_name \in ToolNames :
          LET tc_class == LookupToolClass(TOOL_CONFIG_CLASSES_BY_TOOL_NAME,
                                          tool_name) IN
          regCall' = RegCall("extract_tool_configs", tool_name,
                             tc_class.status, tc_class.result, NoKeys)
    /\ RegistryFrame

McpKinds == {"stdio", "http", "sse", "ws"}

\* extract_mcp_client_toolset_configs on one toolset entry
ExtractMcpClientToolsetConfigs ==
    /\ \E kind \in McpKinds :
          LET klass == LookupByKind(MCP_TOOLSET_CONFIG_CLASSES_BY_KIND,
                                    kind) IN
          regCall' = RegCall("extract_mcp_client_toolset_configs", kind,
                             klass.status, klass.result, NoKeys)
    /\ RegistryFrame

SourceKinds == {"env_var", "random_chars", "vault", "keyring"}

\* SecretConfig.from_yaml on a secret with one source of the kind
SecretConfigFromYaml ==
    /\ \E kind \in SourceKinds :
          LET klass == LookupByKind(SourceClassesByKind, kind) IN
          regCall' = RegCall("SecretConfig.from_yaml", kind,
                             klass.status, klass.result, NoKeys)
    /\ RegistryFrame

\* secrets.get_secret on a secret whose first source has the kind: the
\* getter the source is handed to
GetSecretDispatch ==
    /\ \E kind \in SourceKinds \ {"keyring"} :
          LET getter == LookupByKind(secrets_SECRET_GETTERS_BY_KIND, kind) IN
          regCall' = RegCall("get_secret", kind,
                             getter.status, getter.result, NoKeys)
    /\ RegistryFrame

\* ------------------------------------------------------------------------
\* Construction of configuration objects (config.py)
\* ------------------------------------------------------------------------
\* the outcome of a constructor or from_yaml call: the exception raised and
\* the one it was raised from, or the object built
Built(call, args, status, raised, cause, obj) ==
    [call |-> call, args |-> args, status |-> status, raised |-> raised,
     cause |-> cause, obj |-> obj]

NothingBuilt == Built("none", <<>>, "none", "", "", <<>>)

\* the frame of a construction: nothing else of the process changes
ConstructFrame ==
    /\ UNCHANGED <<os_environ, secretVars, envVars>>
    /\ UNCHANGED <<fsVars, loadResult, cacheVars, concVars>>
    /\ UNCHANGED <<checkVars, toolVars, registryVars, startupVars>>
    /\ UNCHANGED agentVars

\* ---- QuizConfig ----
\* question file names are made of a plain name, the path separator and the
\* '.json' suffix
QuizTokens == {"q", "/", ".json"}

QuestionFiles ==
    {PyNone} \cup {Str(t) : t \in SeqsUpTo(QuizTokens, MaxFileTokens)}

StemArgs == {PyNone, Str(<<"s">>)}

OverrideArgs == {PyNone, Str(<<"/", "o">>)}

\* '"/" in question_file'
ContainsSlash(str) == \E i \in 1..Len(str.toks) : str.toks[i] = "/"

\* 'question_file.endswith(".json")'
endswith_json(str) ==
    Len(str.toks) >= 1 /\ str.toks[Len(str.toks)] = ".json"

\* 'question_file[: -len(".json")]' when the name ends with '.json'
StripJson(str) ==
    IF endswith_json(str)
    THEN Str(SubSeq(str.toks, 1, Len(str.toks) - 1))
    ELSE str

\* the fields after the question_file branch of __post_init__
QuizFields(question_file, stem, override) ==
    IF question_file.isnone
    THEN [_question_file_stem |-> stem,
          _question_file_path_override |-> override]
    ELSE IF ContainsSlash(question_file)
         THEN [_question_file_stem |-> stem,
               _question_file_path_override |-> question_file]
         ELSE [_question_file_stem |-> StripJson(question_file),
               _question_file_path_override |-> override]

\* the test accepts a config with both fields set
QuizRejectedOnlyWhenNeither(fields) ==
    /\ fields._question_file_stem.isnone
    /\ fields._question_file_path_override.isnone

\* the test that raises QCExactlyOneOfStemOrOverride
QuizRejected(fields) ==
    \/ /\ fields._question_file_stem.isnone
       /\ fields._question_file_path_override.isnone
    \/ /\ ~fields._question_file_stem.isnone
       /\ ~fields._question_file_path_override.isnone

\* QuizConfig(id, question_file, _question_file_stem,
\*            _question_file_path_override): __post_init__
QuizConfig(call, question_file, stem, override) ==
    LET args == [question_file |-> question_file, stem |-> stem,
                 override |-> override]
        fields == QuizFields(question_file, stem, override) IN
    IF QuizRejected(fields)
    THEN Built(call, args, "raise", "QCExactlyOneOfStemOrOverride", "",
               <<>>)
    ELSE Built(call, args, "ok", "", "", fields)

\* the constructor called directly
ConstructQuizConfig ==
    /\ \E question_file \in QuestionFiles, stem \in StemArgs,
          override \in OverrideArgs :
          built' = QuizConfig("QuizConfig", question_file, stem, override)
    /\ ConstructFrame

\* QuizConfig.from_yaml: any exception of the constructor is raised again
\* as a FromYamlException
QuizConfigFromYaml ==
    /\ \E question_file \in QuestionFiles, stem \in StemArgs,
          override \in OverrideArgs :
          LET b == QuizConfig("QuizConfig.from_yaml", question_file, stem,
                              override) IN
          built' = IF b.status = "raise"
                   THEN [b EXCEPT !.raised = "FromYamlException",
                                  !.cause = b.raised]
                   ELSE b
    /\ ConstructFrame

\* ---- SecretConfig ----
\* the 'sources' argument: None or a list
NoSources == [isnone |-> TRUE, list |-> <<>>]

SourcesList(list) == [isnone |-> FALSE, list |-> list]

\* SecretConfig.__post_init__: only None is replaced by the default source
SecretConfigPostInit(secret_name, srcs) ==
    SecretConfig(secret_name,
                 IF srcs.isnone
                 THEN <<EnvVarSecretSource(secret_name)>>
                 ELSE srcs.list)

\* source lists handed to the constructor
CtorSources ==
    {NoSources} \cup
    {SourcesList(l) :
        l \in SeqsUpTo({EnvVarSecretSource("b"),
                        RandomCharsSecretSource(16)}, MaxSources)}

\* SecretConfig(secret_name, sources)
ConstructSecretConfig ==
    /\ \E secret_name \in Names, srcs \in CtorSources :
          built' = Built("SecretConfig",
                         [secret_name |-> secret_name, sources |-> srcs],
                         "ok", "", "",
                         SecretConfigPostInit(secret_name, srcs))
    /\ ConstructFrame

\* the YAML forms of a secret: a string, or a mapping with or without a
\* 'sources' list of source kinds
SecretYamlForms ==
    {[isstr |-> TRUE, sources |-> NoSources],
     [isstr |-> FALSE, sources |-> NoSources]} \cup
    {[isstr |-> FALSE, sources |-> SourcesList(l)] :
        l \in SeqsUpTo({"env_var", "random_chars", "vault"}, MaxSources)}

\* source_klass.from_yaml on a source entry that has only its kind
SourceFromYaml(kind, secret_name) ==
    CASE kind = "env_var" -> EnvVarSecretSource(secret_name)
      [] kind = "file_path" -> FilePathSecretSource(secret_name)
      [] kind = "subprocess" -> SubprocessSecretSource(secret_name)
      [] kind = "random_chars" -> RandomCharsSecretSource(32)

\* SecretConfig.from_yaml
SecretConfig_from_yaml(secret_name, config) ==
    LET args == [secret_name |-> secret_name, sources |-> config.sources,
                 isstr |-> config.isstr]
        source_configs ==
            IF config.isstr THEN SourcesList(<<"env_var">>)
            ELSE config.sources
        kinds == source_configs.list IN
    IF source_configs.isnone
    THEN Built("SecretConfig.from_yaml", args, "raise", "TypeError", "",
               <<>>)
    ELSE IF \E i \in 1..Len(kinds) : kinds[i] \notin DOMAIN SourceClassesByKind
    THEN Built("SecretConfig.from_yaml", args, "raise", "KeyError", "",
               <<>>)
    ELSE Built("SecretConfig.from_yaml", args, "ok", "", "",
               SecretConfigPostInit(
                   secret_name,
                   SourcesList([i \in 1..Len(kinds) |->
                                   SourceFromYaml(kinds[i], secret_name)])))

LoadSecretConfig ==
    /\ \E secret_name \in Names, config \in SecretYamlForms :
          built' = SecretConfig_from_yaml(secret_name, config)
    /\ ConstructFrame

\* ---- tool configs built by extract_tool_configs ----
\* the dot-separated segments of the tool names
Segments(tool_name) ==
    CASE tool_name = SEARCH_DOCUMENTS ->
             <<"soliplex", "tools", "search_documents">>
      [] tool_name = "plugin.tool" -> <<"plugin", "tool">>
      [] tool_name = "rooms.other_tool" -> <<"rooms", "other_tool">>
      [] tool_name = "bare_tool" -> <<"bare_tool">>

\* ToolConfig.kind: '_, kind = self.tool_name.rsplit(".", 1)'
ToolConfig_kind(tool_name) ==
    LET segs == Segments(tool_name) IN
    IF Len(segs) >= 2
    THEN [status |-> "ok", kind |-> segs[Len(segs)]]
    ELSE [status |-> "raise", kind |-> "ValueError"]

\* a key of a YAML entry that is absent
Absent == "<absent>"

\* entries of a 'tools' list: the keys tool_name, kind and rag_lancedb_stem,
\* each present or absent
ToolEntries ==
    [tool_name : ToolNames \cup {"bare_tool", Absent},
     kind : {Absent, "search_documents", "documents"},
     rag_lancedb_stem : {Absent, "db"}]

\* one pass of the loop of extract_tool_configs: the class is looked up, the
\* config is built from the keys of the entry and stored under its kind
extract_tool_config(registry, entry) ==
    LET tc_class == LookupToolClass(registry, entry.tool_name).result
        raised(type, cause) ==
            Built("extract_tool_configs", entry, "raise", type, cause, <<>>)
    IN
    IF tc_class = "ToolConfig"
    THEN \* dataclass __init__: tool_name is required, and kind and
         \* rag_lancedb_stem are not fields
         IF \/ entry.tool_name = Absent
            \/ entry.kind # Absent
            \/ entry.rag_lancedb_stem # Absent
         THEN raised("FromYamlException", "TypeError")
         ELSE IF ToolConfig_kind(entry.tool_name).status = "raise"
         THEN raised("ValueError", "")
         ELSE Built("extract_tool_configs", entry, "ok", "", "",
                    [class |-> tc_class, tool_name |-> entry.tool_name,
                     kind |-> ToolConfig_kind(entry.tool_name).kind])
    ELSE \* SearchDocumentsToolConfig: kind is a field with a default
         IF entry.rag_lancedb_stem = Absent
         THEN raised("FromYamlException", "RagDbExactlyOneOfStemOrOverride")
         ELSE Built("extract_tool_configs", entry, "ok", "", "",
                    [class |-> tc_class, tool_name |-> entry.tool_name,
                     kind |-> IF entry.kind = Absent
                              THEN "search_documents"
                              ELSE entry.kind])

ExtractToolConfigEntry ==
    /\ \E entry \in ToolEntries :
          built' = extract_tool_config(TOOL_CONFIG_CLASSES_BY_TOOL_NAME,
                                       entry)
    /\ ConstructFrame

\* ------------------------------------------------------------------------
\* The start-up sequence: load_installation, reload_configurations,
\* resolve_environment
\* ------------------------------------------------------------------------
DEFAULT_AGENT_MODEL == "DEFAULT_AGENT_MODEL"

\* keys the installation document may declare in its environment
StartupKeys == {DEFAULT_AGENT_MODEL, "a"}

\* InstallationConfig.get_environment(key): 'self.environment.get(key)'
get_environment(env, key) ==
    IF \E i \in 1..Len(env) : env[i].key = key
    THEN env[CHOOSE i \in 1..Len(env) : env[i].key = key].value
    ELSE PyNone

\* AgentConfig.__post_init__ of an agent that has its installation config
AgentModelName(model_name, env) ==
    IF model_name.isnone
    THEN get_environment(env, DEFAULT_AGENT_MODEL)
    ELSE model_name

NoAgentConfig == [built |-> FALSE, declared |-> PyNone, model_name |-> PyNone]

\* reload_configurations loads the room; RoomConfig.from_yaml builds its
\* agent with AgentConfig.from_yaml, which reads the environment as it is
\* at that moment
BuildRoomAgent ==
    /\ ~agent_config.built
    /\ envResult = EnvNotCalled
    /\ \E declared \in {PyNone, Str(<<"m">>)} :
          agent_config' =
              [built |-> TRUE, declared |-> declared,
               model_name |-> AgentModelName(declared, environment)]
    /\ UNCHANGED <<os_environ, secretVars, envVars>>
    /\ UNCHANGED <<fsVars, loadResult, cacheVars, concVars>>
    /\ UNCHANGED <<checkVars, toolVars, registryVars, constructVars>>
    /\ UNCHANGED agentVars

\* lifespan calls resolve_environment after reload_configurations
StartupResolveEnvironment ==
    /\ agent_config.built
    /\ ResolveEnvironment

\* ------------------------------------------------------------------------
\* agents.py: get_agent_from_configs and its module-level cache
\* ------------------------------------------------------------------------
AgentIds == {"room-r1", "room-r2"}

\* the configs a caller passes: the agent config (its id and model_name,
\* whether its system prompt can be read) and the kinds of the tool configs;
\* after a reload the same id comes with other configs
AgentCallArgs ==
    [id : AgentIds, model_name : {"m1", "m2"},
     tool_kinds : {{}, {"search_documents"}}, prompt_readable : BOOLEAN]

\* pydantic_ai.Agent(model=..., tools=..., ...)
Agent(args) ==
    [id |-> args.id, model_name |-> args.model_name,
     tool_kinds |-> args.tool_kinds]

\* every call builds
NeverInCache(cache, id) == FALSE

\* 'agent_config.id in _agent_cache'
InCache(cache, id) == id \in DOMAIN cache

NoAgentCall ==
    [status |-> "none", args |-> <<>>, returned |-> <<>>, hit |-> FALSE]

\* get_agent_from_configs(agent_config, tool_configs, mcp_toolset_configs)
GetAgentFromConfigs ==
    /\ \E args \in AgentCallArgs :
          IF InCache(_agent_cache, args.id)
          THEN /\ agentCall' = [status |-> "ok", args |-> args,
                                returned |-> _agent_cache[args.id],
                                hit |-> TRUE]
               /\ UNCHANGED <<_agent_cache, agents_built>>
          ELSE IF ~args.prompt_readable
          THEN \* get_system_prompt raises before the cache is written
               /\ agentCall' = [status |-> "raise", args |-> args,
                                returned |-> <<>>, hit |-> FALSE]
               /\ UNCHANGED <<_agent_cache, agents_built>>
          ELSE /\ _agent_cache' =
                      [k \in DOMAIN _agent_cache \cup {args.id} |->
                          IF k = args.id THEN Agent(args)
                          ELSE _agent_cache[k]]
               /\ agents_built' =
                      [agents_built EXCEPT ![args.id] = @ + 1]
               /\ agentCall' = [status |-> "ok", args |-> args,
                                returned |-> Agent(args), hit |-> FALSE]
    /\ UNCHANGED <<os_environ, secretVars, envVars>>
    /\ UNCHANGED <<fsVars, loadResult, cacheVars, concVars>>
    /\ UNCHANGED <<checkVars, toolVars, registryVars>>
    /\ UNCHANGED <<constructVars, startupVars>>

\* ------------------------------------------------------------------------
\* The surroundings of the secret resolver change between calls
\* ------------------------------------------------------------------------
\* an environment variable is set in the process
SetEnvVar ==
    /\ \E n \in Names \ DOMAIN os_environ :
          os_environ' = [k \in DOMAIN os_environ \cup {n} |->
                            IF k = n THEN Value("env", n) ELSE os_environ[k]]
    /\ UNCHANGED <<sources, files, commands, secretResult, _resolved>>
    /\ UNCHANGED envVars
    /\ UNCHANGED <<fsVars, loadResult, cacheVars, concVars>>
    /\ UNCHANGED laterVars

\* a secret file is written
WriteSecretFile ==
    /\ \E n \in Names \ DOMAIN files :
          files' = [k \in DOMAIN files \cup {n} |->
                       IF k = n THEN Value("file", n) ELSE files[k]]
    /\ UNCHANGED <<sources, os_environ, commands, secretResult, _resolved>>
    /\ UNCHANGED envVars
    /\ UNCHANGED <<fsVars, loadResult, cacheVars, concVars>>
    /\ UNCHANGED laterVars

\* a command that could not be spawned is installed
InstallCommand ==
    /\ \E n \in Names, b \in CommandBehaviours \ {"nospawn"} :
          /\ commands[n] = "nospawn"
          /\ commands' = [commands EXCEPT ![n] = b]
    /\ UNCHANGED <<sources, os_environ, files, secretResult, _resolved>>
    /\ UNCHANGED envVars
    /\ UNCHANGED <<fsVars, loadResult, cacheVars, concVars>>
    /\ UNCHANGED laterVars

\* ------------------------------------------------------------------------
\* Initial states and specifications
\* ------------------------------------------------------------------------
\* the sequences of distinct keys: the key orders of a dict
KeyOrders ==
    {ks \in UNION {[1..n -> EnvKeys] : n \in 0..Cardinality(EnvKeys)} :
        \A i, j \in 1..Len(ks) : i # j => ks[i] # ks[j]}

SecretsIdle ==
    /\ sources = <<>>
    /\ files = <<>>
    /\ commands = [n \in {} |-> "nospawn"]
    /\ secretResult = NotCalled
    /\ _resolved = NoValue

EnvIdle ==
    /\ environment = <<>>
    /\ dotenv_env = <<>>
    /\ envResult = EnvNotCalled

DiscoveryIdle ==
    /\ roomFs = EmptyFs
    /\ compFs = EmptyFs
    /\ loadResult = NotLoaded

CacheIdle ==
    /\ oidcFs = <<>>
    /\ _oidc_auth_system_configs = Unset
    /\ _room_configs = Unset
    /\ _completion_configs = Unset
    /\ op = NoCall
    /\ loaderRan = NoLoaderRan
    /\ firstAccess = NoAccessYet
    /\ reloadedRooms = Unset

ConcIdle ==
    /\ pc = "idle"
    /\ reloads = 0
    /\ gen = [oidc |-> 0, rooms |-> 0, comps |-> 0]
    /\ observed = NothingObserved

CheckIdle ==
    /\ secret_configs = <<>>
    /\ checkResult = CheckNotCalled

ToolIdle ==
    /\ tool_params = <<>>
    /\ requiresResult = RequiresNotCalled

\* the registries as the modules define them at import
RegistryIdle ==
    /\ TOOL_CONFIG_CLASSES_BY_TOOL_NAME = BuiltinToolClasses
    /\ MCP_TOOLSET_CONFIG_CLASSES_BY_KIND = BuiltinMcpClasses
    /\ config_SECRET_GETTERS_BY_KIND = <<>>
    /\ lastRegistered = [tools |-> <<>>, mcp |-> <<>>, getters |-> <<>>]
    /\ loads = 0
    /\ regCall = NoRegCall

ConstructIdle == built = NothingBuilt

StartupIdle == agent_config = NoAgentConfig

\* the module as imported: an empty cache
AgentIdle ==
    /\ _agent_cache = <<>>
    /\ agents_built = [id \in AgentIds |-> 0]
    /\ agentCall = NoAgentCall

MoreIdle == ConstructIdle /\ StartupIdle /\ AgentIdle

LaterIdle == CheckIdle /\ ToolIdle /\ RegistryIdle /\ MoreIdle

\* the installation as load_installation leaves it: nothing cached
InitCache ==
    /\ roomFs \in RoomTrees
    /\ compFs \in CompletionTrees
    /\ oidcFs \in OidcTrees
    /\ _oidc_auth_system_configs = Unset
    /\ _room_configs = Unset
    /\ _completion_configs = Unset
    /\ op = NoCall
    /\ loaderRan = NoLoaderRan
    /\ firstAccess = NoAccessYet
    /\ reloadedRooms = Unset
    /\ ConcIdle
    /\ LaterIdle
    /\ loadResult = NotLoaded
    /\ os_environ = <<>>
    /\ SecretsIdle
    /\ EnvIdle

NextCache ==
    \/ AccessOidc
    \/ AccessRooms
    \/ AccessCompletions
    \/ Reload
    \/ ChangeRoomFiles
    \/ ChangeCompletionFiles
    \/ ChangeOidcFiles

SpecCache == InitCache /\ [][NextCache]_vars

\* callers that change the maps they get from the two map properties
NextCopy ==
    \/ AccessRooms
    \/ AccessCompletions
    \/ CallerMutates
    \/ Reload
    \/ ChangeRoomFiles
    \/ ChangeCompletionFiles

SpecCopy == InitCache /\ [][NextCopy]_vars

NextConc ==
    \/ ReloadOidcStep
    \/ ReloadRoomsStep
    \/ ReloadCompletionsStep
    \/ ReaderReads
    \/ ChangeRoomFiles
    \/ ChangeCompletionFiles
    \/ ChangeOidcFiles

SpecConc == InitCache /\ [][NextConc]_vars

InitSecrets ==
    /\ sources \in SeqsUpTo(SecretSource, MaxSources)
    /\ os_environ \in {[n \in S |-> Value("env", n)] : S \in SUBSET Names}
    /\ files \in {[n \in S |-> Value("file", n)] : S \in SUBSET Names}
    /\ commands \in [Names -> CommandBehaviours]
    /\ secretResult = NotCalled
    /\ _resolved = NoValue
    /\ EnvIdle
    /\ DiscoveryIdle
    /\ CacheIdle
    /\ ConcIdle
    /\ LaterIdle

InitEnv ==
    /\ \E ks \in KeyOrders :
          environment \in
              {[i \in 1..Len(ks) |-> [key |-> ks[i], value |-> vs[i]]] :
                  vs \in [1..Len(ks) -> DeclaredValues]}
    /\ \E S \in SUBSET EnvKeys : dotenv_env \in [S -> DotenvValues]
    /\ \E S \in SUBSET EnvKeys : os_environ \in [S -> ProcessValues]
    /\ envResult = EnvNotCalled
    /\ SecretsIdle
    /\ DiscoveryIdle
    /\ CacheIdle
    /\ ConcIdle
    /\ LaterIdle

InitDiscovery ==
    /\ IsFsState(roomFs)
    /\ compFs = roomFs
    /\ loadResult = NotLoaded
    /\ os_environ = <<>>
    /\ SecretsIdle
    /\ EnvIdle
    /\ CacheIdle
    /\ ConcIdle
    /\ LaterIdle

\* the sources of the secrets handed to check_secrets
CheckedSources ==
    {EnvVarSecretSource(n) : n \in Names} \cup {SubprocessSecretSource("a")}

\* secrets named after their place in the list, each with its own sources
InitCheck ==
    /\ \E n \in 0..MaxSecrets :
          \E srcs \in [1..n -> SeqsUpTo(CheckedSources, MaxSources)] :
              secret_configs = [i \in 1..n |-> SecretConfig(i, srcs[i])]
    /\ checkResult = CheckNotCalled
    /\ os_environ \in {[n \in S |-> Value("env", n)] : S \in SUBSET Names}
    /\ commands \in {[n \in Names |-> IF n = "a" THEN b ELSE "nospawn"] :
                         b \in CommandBehaviours}
    /\ sources = <<>>
    /\ files = <<>>
    /\ secretResult = NotCalled
    /\ _resolved = NoValue
    /\ EnvIdle
    /\ DiscoveryIdle
    /\ CacheIdle
    /\ ConcIdle
    /\ ToolIdle
    /\ RegistryIdle
    /\ MoreIdle

NextCheck == CheckSecrets

SpecCheck == InitCheck /\ [][NextCheck]_vars

\* a tool function with up to MaxParams parameters of distinct names
InitTool ==
    /\ tool_params \in
           {ps \in SeqsUpTo(ParamNames, MaxParams) :
               \A i, j \in 1..Len(ps) : i # j => ps[i] # ps[j]}
    /\ requiresResult = RequiresNotCalled
    /\ os_environ = <<>>
    /\ SecretsIdle
    /\ EnvIdle
    /\ DiscoveryIdle
    /\ CacheIdle
    /\ ConcIdle
    /\ CheckIdle
    /\ RegistryIdle
    /\ MoreIdle

NextTool == ToolRequires

SpecTool == InitTool /\ [][NextTool]_vars

\* a process that has imported soliplex.config and soliplex.secrets
InitRegistry ==
    /\ RegistryIdle
    /\ os_environ = <<>>
    /\ SecretsIdle
    /\ EnvIdle
    /\ DiscoveryIdle
    /\ CacheIdle
    /\ ConcIdle
    /\ CheckIdle
    /\ ToolIdle
    /\ MoreIdle

NextRegistry ==
    \/ LoadMeta
    \/ ExtractToolConfigs
    \/ ExtractMcpClientToolsetConfigs
    \/ SecretConfigFromYaml
    \/ GetSecretDispatch

SpecRegistry == InitRegistry /\ [][NextRegistry]_vars

\* a process that has imported soliplex.config and built nothing yet
InitConstruct ==
    /\ ConstructIdle
    /\ os_environ = <<>>
    /\ SecretsIdle
    /\ EnvIdle
    /\ DiscoveryIdle
    /\ CacheIdle
    /\ ConcIdle
    /\ CheckIdle
    /\ ToolIdle
    /\ RegistryIdle
    /\ StartupIdle
    /\ AgentIdle

NextConstruct ==
    \/ ConstructQuizConfig
    \/ QuizConfigFromYaml
    \/ ConstructSecretConfig
    \/ LoadSecretConfig
    \/ ExtractToolConfigEntry

SpecConstruct == InitConstruct /\ [][NextConstruct]_vars

StartupKeyOrders ==
    {ks \in SeqsUpTo(StartupKeys, Cardinality(StartupKeys)) :
        \A i, j \in 1..Len(ks) : i # j => ks[i] # ks[j]}

\* the installation as load_installation returns it: the environment as
\* declared, no room loaded yet
InitStartup ==
    /\ \E ks \in StartupKeyOrders :
          environment \in
              {[i \in 1..Len(ks) |-> [key |-> ks[i], value |-> vs[i]]] :
                  vs \in [1..Len(ks) -> DeclaredValues]}
    /\ \E S \in SUBSET StartupKeys : dotenv_env \in [S -> DotenvValues]
    /\ \E S \in SUBSET StartupKeys : os_environ \in [S -> ProcessValues]
    /\ envResult = EnvNotCalled
    /\ agent_config = NoAgentConfig
    /\ SecretsIdle
    /\ DiscoveryIdle
    /\ CacheIdle
    /\ ConcIdle
    /\ CheckIdle
    /\ ToolIdle
    /\ RegistryIdle
    /\ ConstructIdle
    /\ AgentIdle

NextStartup ==
    \/ BuildRoomAgent
    \/ StartupResolveEnvironment

SpecStartup == InitStartup /\ [][NextStartup]_vars

InitAgents ==
    /\ AgentIdle
    /\ os_environ = <<>>
    /\ SecretsIdle
    /\ EnvIdle
    /\ DiscoveryIdle
    /\ CacheIdle
    /\ ConcIdle
    /\ CheckIdle
    /\ ToolIdle
    /\ RegistryIdle
    /\ ConstructIdle
    /\ StartupIdle

NextAgents == GetAgentFromConfigs

SpecAgents == InitAgents /\ [][NextAgents]_vars

\* a SecretConfig none of whose env_var, file_path and subprocess sources
\* is available yet
InitRetry ==
    /\ sources \in SeqsUpTo(SecretSource, MaxSources)
    /\ os_environ = <<>>
    /\ files = <<>>
    /\ commands = [n \in Names |-> "nospawn"]
    /\ secretResult = NotCalled
    /\ _resolved = NoValue
    /\ EnvIdle
    /\ DiscoveryIdle
    /\ CacheIdle
    /\ ConcIdle
    /\ LaterIdle

NextRetry ==
    \/ GetSecret
    \/ SetEnvVar
    \/ WriteSecretFile
    \/ InstallCommand

SpecRetry == InitRetry /\ [][NextRetry]_vars

NextSecrets == GetSecret

SpecSecrets == InitSecrets /\ [][NextSecrets]_vars

NextEnv == ResolveEnvironment

SpecEnv == InitEnv /\ [][NextEnv]_vars

NextDiscovery == LoadRoomConfigs \/ LoadCompletionConfigs

SpecDiscovery == InitDiscovery /\ [][NextDiscovery]_vars

\* ------------------------------------------------------------------------
\* Claims about the secret resolver
\* ------------------------------------------------------------------------
\* A source succeeds when its getter returns a value; otherwise it fails.
Succeeds(i) == SECRET_GETTERS_BY_KIND(sources[i], i).status = "ok"

FirstSucceeding(i) ==
    /\ i \in 1..Len(sources)
    /\ Succeeds(i)
    /\ \A j \in 1..(i - 1) : ~Succeeds(j)

Called == secretResult.status # "none"

\* C1: when some source succeeds, get_secret returns the value of the first
\* succeeding source in declared order, and no source after it is invoked.
C1_FirstSucceedingSourceWins ==
    Called =>
        \A i \in 1..Len(sources) :
            FirstSucceeding(i) =>
                /\ secretResult.status = "ok"
                /\ secretResult.value =
                       SECRET_GETTERS_BY_KIND(sources[i], i).value
                /\ secretResult.invoked = i

\* C2: when every source of a (non-empty) source list fails, get_secret
\* raises SecretSourcesFailed with exactly one failure entry per source, entry
\* i being the failure of source i.
C2_AllFailedOneEntryPerSource ==
    (/\ Called
     /\ Len(sources) >= 1
     /\ \A i \in 1..Len(sources) : ~Succeeds(i))
        => /\ secretResult.status = "SecretSourcesFailed"
           /\ Len(secretResult.excs) = Len(sources)
           /\ \A i \in 1..Len(sources) : secretResult.excs[i].source = i

\* source i is an EnvVar source whose variable is not set
UnsetEnvVar(i) ==
    /\ sources[i].kind = "env_var"
    /\ sources[i].arg \notin DOMAIN os_environ

ReachesNonZeroExit(i) ==
    /\ sources[i].kind = "subprocess"
    /\ commands[sources[i].arg] = "nonzero"
    /\ \A j \in 1..(i - 1) : ~Succeeds(j)

\* C25: a Subprocess source whose command exits with a non-zero status is a
\* failed source like any other: get_secret records the failure and goes on
\* to the next source; when it was the last source, SecretSourcesFailed is
\* raised with that failure as the entry of that source.
C25_NonZeroExitIsAFailedSource ==
    Called =>
        \A i \in 1..Len(sources) :
            ReachesNonZeroExit(i) =>
              /\ i < Len(sources) => secretResult.invoked > i
              /\ i = Len(sources) =>
                    /\ secretResult.status = "SecretSourcesFailed"
                    /\ Len(secretResult.excs) = i
                    /\ secretResult.excs[i].source = i

\* the step is a call of get_secret: nothing around the resolver changes
GetSecretStep ==
    /\ os_environ' = os_environ
    /\ files' = files
    /\ commands' = commands

\* C28: get_secret leaves the SecretConfig as it was, its sources (content
\* and order) and its _resolved field; nothing is memoised: every call tries
\* the chain from the first source, so that a secret whose sources all failed
\* in the last call resolves, with its first available source, once one of
\* its sources has become available.
C28_GetSecretLeavesConfigAndRetries ==
    [][GetSecretStep =>
         /\ sources' = sources
         /\ _resolved' = _resolved
         /\ (/\ secretResult.status = "SecretSourcesFailed"
             /\ \E i \in 1..Len(sources) : Succeeds(i))
            => /\ secretResult'.status = "ok"
               /\ FirstSucceeding(secretResult'.invoked)]_vars

\* ------------------------------------------------------------------------
\* Claims about discovery
\* ------------------------------------------------------------------------
\* the file tree the last loader call has searched
SearchedFs ==
    IF loadResult.op = "_load_room_configs" THEN roomFs ELSE compFs

LoaderCalled == loadResult.op # "none"

\* root r yields a document that declares the id
RootYields(r, id) ==
    \E k \in 1..Len(_find_configs(SearchedFs, r)) :
        /\ _find_configs(SearchedFs, r)[k].raised = ""
        /\ _find_configs(SearchedFs, r)[k].doc.id = id

\* the earliest root that yields the id
EarliestRoot(id) ==
    CHOOSE r \in 1..MaxRoots :
        /\ RootYields(r, id)
        /\ \A q \in 1..(r - 1) : ~RootYields(q, id)

\* every discovered document is a map with an id, and for every id the first
\* document of the earliest root that declares it can be constructed
OnlyLosersAreInvalid ==
    /\ \A r \in 1..MaxRoots :
          \A k \in 1..Len(_find_configs(SearchedFs, r)) :
              LET item == _find_configs(SearchedFs, r)[k] IN
              /\ item.raised = ""
              /\ item.doc.id # NoId
              /\ (/\ r = EarliestRoot(item.doc.id)
                  /\ \A j \in 1..(k - 1) :
                        _find_configs(SearchedFs, r)[j].doc.id # item.doc.id)
                    => item.doc.body # "invalid"

\* C3: first-past-the-post: when several roots yield a document with the
\* same id, the resulting map holds for that id the config built from the
\* earliest root's document, and the documents with that id from later roots
\* are discarded without error.
C3_FirstRootWins ==
    LoaderCalled =>
        /\ OnlyLosersAreInvalid => loadResult.result.status = "ok"
        /\ loadResult.result.status = "ok" =>
              \A id \in Ids :
                  (\E r \in 1..MaxRoots : RootYields(r, id)) =>
                      /\ id \in DOMAIN loadResult.result.configs
                      /\ loadResult.result.configs[id].path[1] =
                             EarliestRoot(id)
                      /\ loadResult.result.configs[id] =
                             from_yaml(loadResult.result.configs[id].path,
                                 SearchedFs[loadResult.result.configs[id].path].doc)

\* two roots declare the same id with different content, the later root's
\* document could not even be constructed, and the load succeeds
C3_Witness ==
    /\ LoaderCalled
    /\ loadResult.result.status = "ok"
    /\ \E id \in Ids :
          /\ <<1, 0>> \in DOMAIN SearchedFs
          /\ SearchedFs[<<1, 0>>].doc = [shape |-> "map", id |-> id, body |-> "A"]
          /\ \E p \in DOMAIN SearchedFs :
                /\ p[1] = 2
                /\ SearchedFs[p].doc = [shape |-> "map", id |-> id, body |-> "invalid"]
                /\ RootYields(2, id)
          /\ loadResult.result.configs[id].body = "A"

\* root r has its own copy of the file
HasOwnFile(r) == <<r, 0>> \in DOMAIN SearchedFs

\* the names of the immediate subdirectories of root r that hold the file
SubdirsWithFile(r) ==
    {n \in 1..MaxSubdirs :
        /\ <<r, n>> \in DOMAIN SearchedFs
        /\ SearchedFs[<<r, n>>].kind = "dir"
        /\ SearchedFs[<<r, n>>].doc.shape # "missing"}

\* the document at position p parses to a map
ParsesToMap(p) == SearchedFs[p].doc.shape = "map"

\* C12: for every root, _find_configs yields exactly the root's own document
\* if the root has the file, whatever its subdirectories hold; otherwise it
\* yields the documents of the immediate subdirectories that hold the file,
\* in sorted order of the subdirectories, and nothing for plain files and
\* for subdirectories without the file (a document that does not parse ends
\* the sequence with its error); with no match it yields nothing.
C12_FindConfigsYields ==
    LoaderCalled =>
        \A r \in 1..MaxRoots :
            LET y == _find_configs(SearchedFs, r) IN
            IF HasOwnFile(r)
            THEN /\ Len(y) = 1
                 /\ y[1].path = <<r, 0>>
                 /\ y[1].raised = "" <=> ParsesToMap(<<r, 0>>)
                 /\ y[1].raised = "" => y[1].doc = SearchedFs[<<r, 0>>].doc
            ELSE /\ \A j \in 1..Len(y) :
                       /\ y[j].path[1] = r
                       /\ y[j].path[2] \in SubdirsWithFile(r)
                       /\ y[j].raised = "" <=> ParsesToMap(y[j].path)
                       /\ y[j].raised = "" =>
                             y[j].doc = SearchedFs[y[j].path].doc
                       /\ \A k \in (j + 1)..Len(y) :
                             y[j].path[2] < y[k].path[2]
                 /\ \A n \in SubdirsWithFile(r) :
                       \/ \E j \in 1..Len(y) : y[j].path = <<r, n>>
                       \/ \E m \in SubdirsWithFile(r) :
                             m < n /\ ~ParsesToMap(<<r, m>>)

\* a loader ran on a tree in which one root has no file of its own and two
\* subdirectories holding the file, yielded in sorted order, and another
\* root has the file itself
C12_Witness ==
    /\ LoaderCalled
    /\ \E r, q \in 1..MaxRoots :
          /\ ~HasOwnFile(r)
          /\ Len(_find_configs(SearchedFs, r)) = 2
          /\ _find_configs(SearchedFs, r)[1].path = <<r, 1>>
          /\ _find_configs(SearchedFs, r)[2].path = <<r, 2>>
          /\ HasOwnFile(q)
          /\ Len(_find_configs(SearchedFs, q)) = 1

\* discovery reads the document at position p: the root's own file, or the
\* file of a subdirectory of a root that has no file of its own
Candidate(p) ==
    IF p[2] = 0
    THEN HasOwnFile(p[1])
    ELSE ~HasOwnFile(p[1]) /\ p[2] \in SubdirsWithFile(p[1])

\* discovery reads position q before position p
ReadBefore(q, p) == q[1] < p[1] \/ (q[1] = p[1] /\ q[2] < p[2])

\* the document at q is a map with an id from which a config can be built
Constructible(q) ==
    /\ ParsesToMap(q)
    /\ SearchedFs[q].doc.id # NoId
    /\ SearchedFs[q].doc.body # "invalid"

\* C13: a document that discovery reads and that does not parse, or parses
\* to something that is not a map, is never skipped: the load of the whole
\* collection raises, and when nothing read before the document stops the
\* load, it raises FromYamlException carrying that document's path.
C13_UnparseableDocumentIsFatal ==
    LoaderCalled =>
        \A p \in DOMAIN SearchedFs :
            (Candidate(p) /\ ~ParsesToMap(p)) =>
                /\ loadResult.result.status = "raise"
                /\ (\A q \in DOMAIN SearchedFs :
                       (Candidate(q) /\ ReadBefore(q, p)) => Constructible(q))
                      => /\ loadResult.result.raised = "FromYamlException"
                         /\ loadResult.result.path = p

\* a loader read a valid document and then, in a subdirectory of a later
\* root, a document that is not a map, and raised for that one
C13_Witness ==
    /\ LoaderCalled
    /\ \E p, q \in DOMAIN SearchedFs :
          /\ Candidate(q) /\ Constructible(q) /\ ReadBefore(q, p)
          /\ Candidate(p) /\ p[2] > 0
          /\ SearchedFs[p].doc.shape = "notmap"
          /\ loadResult.result.status = "raise"
          /\ loadResult.result.raised = "FromYamlException"
          /\ loadResult.result.path = p

\* the document at p is a map with an id that a document read before it
\* has declared already
LosesPrecedence(p) ==
    /\ ParsesToMap(p)
    /\ SearchedFs[p].doc.id # NoId
    /\ \E q \in DOMAIN SearchedFs :
          /\ Candidate(q) /\ ReadBefore(q, p)
          /\ ParsesToMap(q)
          /\ SearchedFs[q].doc.id = SearchedFs[p].doc.id

\* C30: a document that loses the id precedence is dropped before it is
\* constructed: when every document read is constructible or loses the
\* precedence, the load returns, whatever the content of the losing
\* documents, and no config of the result comes from a losing document; a
\* document that is read and does not parse to a map, or has no id, makes
\* the load raise.
C30_LosingDocumentIsNotConstructed ==
    LoaderCalled =>
        /\ (\A p \in DOMAIN SearchedFs :
                Candidate(p) => Constructible(p) \/ LosesPrecedence(p))
              => /\ loadResult.result.status = "ok"
                 /\ \A id \in DOMAIN loadResult.result.configs :
                       ~LosesPrecedence(loadResult.result.configs[id].path)
        /\ (\E p \in DOMAIN SearchedFs :
                /\ Candidate(p)
                /\ ~ParsesToMap(p) \/ SearchedFs[p].doc.id = NoId)
              => loadResult.result.status = "raise"

\* the load returned although a subdirectory read after another one of the
\* same root declares the same id with content that cannot be constructed
C30_Witness ==
    /\ LoaderCalled
    /\ loadResult.result.status = "ok"
    /\ \E p, q \in DOMAIN SearchedFs :
          /\ Candidate(q) /\ Candidate(p) /\ ReadBefore(q, p)
          /\ q[1] = p[1]
          /\ Constructible(q)
          /\ SearchedFs[p].doc.shape = "map"
          /\ SearchedFs[p].doc.id = SearchedFs[q].doc.id
          /\ SearchedFs[p].doc.body = "invalid"
          /\ loadResult.result.configs[SearchedFs[q].doc.id].path = q

\* ------------------------------------------------------------------------
\* Claims about check_secrets
\* ------------------------------------------------------------------------
CheckCalled == checkResult.status # "none"

\* get_secret on the i-th secret does not return a value
SecretFails(i) == get_secret(secret_configs[i].sources).status # "ok"

\* the names of the failing secrets from i on, in configured order
RECURSIVE FailedSecretNames(_)
FailedSecretNames(i) ==
    IF i > Len(secret_configs)
    THEN <<>>
    ELSE IF SecretFails(i)
    THEN <<secret_configs[i].secret_name>> \o FailedSecretNames(i + 1)
    ELSE FailedSecretNames(i + 1)

\* C11: check_secrets calls get_secret on every SecretConfig of the list; it
\* returns iff no secret fails, and otherwise raises one SecretsNotFound
\* whose secret_names are exactly the failing secrets in configured order,
\* with one nested error per failing secret.
C11_CheckSecretsReportsAllFailures ==
    CheckCalled =>
        /\ checkResult.attempted = Len(secret_configs)
        /\ checkResult.status = "ok" <=> FailedSecretNames(1) = <<>>
        /\ FailedSecretNames(1) # <<>> =>
              /\ checkResult.status = "SecretsNotFound"
              /\ checkResult.secret_names = FailedSecretNames(1)
              /\ Len(checkResult.excs) = Len(checkResult.secret_names)
              /\ \A j \in 1..Len(checkResult.excs) :
                    checkResult.excs[j].secret_name =
                        checkResult.secret_names[j]

\* ------------------------------------------------------------------------
\* Claims about resolve_environment
\* ------------------------------------------------------------------------
EnvCalled == envResult.status # "none"

\* the local 'resolved' of the last call maps key k to value v
ResolvedTo(k, v) ==
    /\ \E j \in 1..Len(envResult.resolved) :
          envResult.resolved[j] = [key |-> k, value |-> v]
    /\ \A j \in 1..Len(envResult.failed_keys) : envResult.failed_keys[j] # k

RecordedMissing(k) ==
    /\ \E j \in 1..Len(envResult.failed_keys) : envResult.failed_keys[j] = k
    /\ \A j \in 1..Len(envResult.resolved) : envResult.resolved[j].key # k

InOverlay(i) == envResult.before[i].key \in DOMAIN dotenv_env

DeclaredNonNull(i) == ~envResult.before[i].value.isnone

InProcessEnv(i) == envResult.before[i].key \in DOMAIN os_environ

\* C4: for every declared key the value is selected in this order: the .env
\* overlay's value if the key is in the overlay, else the declared value if
\* it is non-null, else the process environment's value, else the key is
\* recorded as missing.
C4_ResolutionOrder ==
    EnvCalled =>
        \A i \in 1..Len(envResult.before) :
            LET k == envResult.before[i].key IN
            IF InOverlay(i)
            THEN ResolvedTo(k, dotenv_env[k])
            ELSE IF DeclaredNonNull(i)
            THEN ResolvedTo(k, envResult.before[i].value)
            ELSE IF InProcessEnv(i)
            THEN ResolvedTo(k, os_environ[k])
            ELSE RecordedMissing(k)

\* a successful call in which one key is taken from the overlay although its
\* declared value is non-null, one key keeps its declared value although the
\* process environment defines it, and one comes from the process environment
C4_Witness ==
    /\ envResult.status = "ok"
    /\ \E i, j, l \in 1..Len(envResult.before) :
          /\ InOverlay(i) /\ DeclaredNonNull(i)
          /\ dotenv_env[envResult.before[i].key] # envResult.before[i].value
          /\ ~InOverlay(j) /\ DeclaredNonNull(j) /\ InProcessEnv(j)
          /\ ~InOverlay(l) /\ ~DeclaredNonNull(l) /\ InProcessEnv(l)

Unresolvable(i) == ~InOverlay(i) /\ ~DeclaredNonNull(i) /\ ~InProcessEnv(i)

\* the keys of the unresolvable entries from i on, in declaration order
RECURSIVE UnresolvableKeys(_)
UnresolvableKeys(i) ==
    IF i > Len(envResult.before)
    THEN <<>>
    ELSE IF Unresolvable(i)
    THEN <<envResult.before[i].key>> \o UnresolvableKeys(i + 1)
    ELSE UnresolvableKeys(i + 1)

\* C5: if any declared key is unresolvable, resolve_environment raises one
\* MissingEnvVars naming exactly the keys that are declared null, absent from
\* the overlay and absent from the process environment, in declaration
\* order, with one MissingEnvVar per such key.
C5_AllMissingKeysReported ==
    (EnvCalled /\ \E i \in 1..Len(envResult.before) : Unresolvable(i))
        => /\ envResult.status = "MissingEnvVars"
           /\ envResult.env_vars = UnresolvableKeys(1)
           /\ Len(envResult.excs) = Len(envResult.env_vars)
           /\ \A j \in 1..Len(envResult.excs) :
                 envResult.excs[j] = MissingEnvVar(envResult.env_vars[j])

\* a failing call where a resolvable key is declared between two
\* unresolvable ones
C5_Witness ==
    /\ envResult.status = "MissingEnvVars"
    /\ Len(envResult.before) = 3
    /\ Unresolvable(1) /\ ~Unresolvable(2) /\ Unresolvable(3)
    /\ envResult.env_vars = <<envResult.before[1].key, envResult.before[3].key>>

\* C14: when resolve_environment raises MissingEnvVars the environment is
\* exactly as it was declared, with no key replaced and no file:
\* substitution applied; when it returns, the environment has the declared
\* keys and every value is a string that does not start with the file:
\* prefix.
C14_ResolutionFailsAtomically ==
    EnvCalled =>
        /\ envResult.status = "MissingEnvVars" =>
              environment = envResult.before
        /\ envResult.status = "ok" =>
              /\ Len(environment) = Len(envResult.before)
              /\ \A i \in 1..Len(environment) :
                    /\ environment[i].key = envResult.before[i].key
                    /\ ~environment[i].value.isnone
                    /\ ~startswith(environment[i].value, FILE_PREFIX)

\* a call raised MissingEnvVars although an earlier key had an overlay value
\* and another a declared file: value, and the environment is as declared
C14_Witness ==
    /\ envResult.status = "MissingEnvVars"
    /\ environment = envResult.before
    /\ \E i, j, l \in 1..Len(environment) :
          /\ i < l /\ j < l
          /\ InOverlay(i)
          /\ ~dotenv_env[environment[i].key].isnone
          /\ dotenv_env[environment[i].key] # environment[i].value
          /\ ~InOverlay(j)
          /\ startswith(environment[j].value, FILE_PREFIX)
          /\ Unresolvable(l)

\* C15: run again on an environment that a successful run has resolved,
\* with the same overlay and process environment, resolve_environment
\* succeeds and leaves every value as the first run left it.
C15_ResolutionIsIdempotent ==
    [][envResult.status = "ok" =>
          /\ envResult'.status = "ok"
          /\ environment' = environment]_vars

\* the last call ran on an environment that was already resolved: it found
\* the path put in place of a declared file: value and left it alone, and
\* resolved an overlay file: value to the same path as before
C15_Witness ==
    /\ envResult.status = "ok"
    /\ envResult.before = environment
    /\ \E i, j \in 1..Len(environment) :
          /\ ~InOverlay(i)
          /\ startswith(environment[i].value, ConfigDir)
          /\ InOverlay(j)
          /\ startswith(dotenv_env[environment[j].key], FILE_PREFIX)
          /\ startswith(environment[j].value, ConfigDir)

\* the value selected for a key starts with file:file:
DoublePrefixed(v) ==
    /\ ~v.isnone
    /\ Len(v.toks) >= 2
    /\ v.toks[1] = FILE_PREFIX
    /\ v.toks[2] = FILE_PREFIX

\* C16: a call in which the value selected for some key starts with
\* file:file: does not succeed.
C16_DoubleFilePrefixRaises ==
    (/\ EnvCalled
     /\ \E j \in 1..Len(envResult.resolved) :
           DoublePrefixed(envResult.resolved[j].value))
        => envResult.status # "ok"

\* ------------------------------------------------------------------------
\* Claims about ToolConfig.tool_requires
\* ------------------------------------------------------------------------
RequiresCalled == requiresResult.status # "none"

DeclaresCtx == \E i \in 1..Len(tool_params) : tool_params[i] = "ctx"

DeclaresToolConfig ==
    \E i \in 1..Len(tool_params) : tool_params[i] = "tool_config"

\* C17: tool_requires ends in exactly one of four ways, fixed by whether the
\* tool declares ctx and whether it declares tool_config: both raise
\* ToolRequirementConflict, ctx alone gives fastapi_context, tool_config
\* alone gives tool_config, neither gives bare; no other parameter and no
\* order of the parameters changes that.
C17_ToolRequiresClassification ==
    RequiresCalled =>
        requiresResult =
            IF DeclaresCtx /\ DeclaresToolConfig
            THEN [status |-> "raise", value |-> "",
                  raised |-> "ToolRequirementConflict"]
            ELSE IF DeclaresCtx
            THEN [status |-> "ok", value |-> "fastapi_context", raised |-> ""]
            ELSE IF DeclaresToolConfig
            THEN [status |-> "ok", value |-> "tool_config", raised |-> ""]
            ELSE [status |-> "ok", value |-> "bare", raised |-> ""]

\* the property was read on a tool that declares tool_config before ctx,
\* and another parameter, and ToolRequirementConflict was raised
C17_Witness ==
    /\ requiresResult.raised = "ToolRequirementConflict"
    /\ Len(tool_params) = 3
    /\ \E i, j \in 1..3 :
          /\ i < j
          /\ tool_params[i] = "tool_config"
          /\ tool_params[j] = "ctx"

\* ------------------------------------------------------------------------
\* Claims about the registries
\* ------------------------------------------------------------------------
\* the last call was the named one
RegistryCalled(call) == regCall.call = call

\* the kinds a secret source can be registered under: the built-in source
\* classes and what meta.secret_sources has registered
RegisteredSourceKinds == BuiltinKinds \cup DOMAIN config_SECRET_GETTERS_BY_KIND

Expected(builtin, latest) ==
    [k \in DOMAIN builtin \cup DOMAIN latest |->
        IF k \in DOMAIN latest THEN latest[k] ELSE builtin[k]]

\* every entry of the registry is still there afterwards, and with the same
\* class unless the step registered its key
Persists(registry, registryAfter, registeredKeys) ==
    \A k \in DOMAIN registry :
        /\ k \in DOMAIN registryAfter
        /\ k \notin registeredKeys => registryAfter[k] = registry[k]

\* C19: after any sequence of meta loads each tool name and each MCP kind
\* maps to the class of its most recent registration, a built-in entry stays
\* unless overwritten, no entry is removed, and what one load registered is
\* still in effect after every later load that does not register the key.
C19_RegistriesLastWriteWins ==
    [][/\ TOOL_CONFIG_CLASSES_BY_TOOL_NAME' =
              Expected(BuiltinToolClasses, lastRegistered'.tools)
       /\ MCP_TOOLSET_CONFIG_CLASSES_BY_KIND' =
              Expected(BuiltinMcpClasses, lastRegistered'.mcp)
       /\ Persists(TOOL_CONFIG_CLASSES_BY_TOOL_NAME,
                   TOOL_CONFIG_CLASSES_BY_TOOL_NAME',
                   regCall'.registered.tools)
       /\ Persists(MCP_TOOLSET_CONFIG_CLASSES_BY_KIND,
                   MCP_TOOLSET_CONFIG_CLASSES_BY_KIND',
                   regCall'.registered.mcp)]_vars

\* the second load registers the plugin tool twice and leaves alone the
\* search tool and the MCP kind that the first load registered
C19_Witness ==
    /\ loads = 2
    /\ RegistryCalled("InstallationConfigMeta.from_yaml")
    /\ regCall.registered.tools = {"plugin.tool"}
    /\ regCall.registered.mcp = {}
    /\ TOOL_CONFIG_CLASSES_BY_TOOL_NAME["plugin.tool"] = "PluginBToolConfig"
    /\ TOOL_CONFIG_CLASSES_BY_TOOL_NAME[SEARCH_DOCUMENTS] =
           "OtherSearchToolConfig"
    /\ "sse" \in DOMAIN MCP_TOOLSET_CONFIG_CLASSES_BY_KIND
    /\ MCP_TOOLSET_CONFIG_CLASSES_BY_KIND["http"] =
           "HTTP_MCP_ClientToolsetConfig"

\* C20: once meta.secret_sources has registered a kind, SecretConfig.from_yaml
\* accepts a source of that kind and secrets.get_secret hands a source of
\* that kind to the registered getter.
C20_RegisteredSecretSourceKindIsUsed ==
    /\ (/\ RegistryCalled("SecretConfig.from_yaml")
        /\ regCall.arg \in DOMAIN config_SECRET_GETTERS_BY_KIND)
       => regCall.status = "ok"
    /\ (/\ RegistryCalled("get_secret")
        /\ regCall.arg \in DOMAIN config_SECRET_GETTERS_BY_KIND)
       => (/\ regCall.status = "ok"
           /\ regCall.result = config_SECRET_GETTERS_BY_KIND[regCall.arg])

\* ------------------------------------------------------------------------
\* Claims about the construction of configuration objects
\* ------------------------------------------------------------------------
QuizBuilt == built.call \in {"QuizConfig", "QuizConfig.from_yaml"}

\* the fields the arguments ask for: question_file with a '/' is the
\* override, any other question_file is the stem without a trailing '.json'
AskedStem ==
    IF ~built.args.question_file.isnone
          /\ ~ContainsSlash(built.args.question_file)
    THEN IF endswith_json(built.args.question_file)
         THEN Str(SubSeq(built.args.question_file.toks, 1,
                         Len(built.args.question_file.toks) - 1))
         ELSE built.args.question_file
    ELSE built.args.stem

AskedOverride ==
    IF ~built.args.question_file.isnone
          /\ ContainsSlash(built.args.question_file)
    THEN built.args.question_file
    ELSE built.args.override

\* C21: a QuizConfig that was built has exactly one of _question_file_stem
\* and _question_file_path_override set; when the arguments set neither or
\* both (directly or through question_file) the constructor raises
\* QCExactlyOneOfStemOrOverride, which from_yaml raises again wrapped in its
\* FromYamlException.
C21_QuizExactlyOneOfStemOrOverride ==
    QuizBuilt =>
      /\ built.status = "ok" =>
           /\ built.obj._question_file_stem.isnone
                 # built.obj._question_file_path_override.isnone
           /\ built.obj._question_file_stem = AskedStem
           /\ built.obj._question_file_path_override = AskedOverride
      /\ (AskedStem.isnone = AskedOverride.isnone) =>
           /\ built.status = "raise"
           /\ \/ built.call = "QuizConfig"
                    /\ built.raised = "QCExactlyOneOfStemOrOverride"
              \/ built.call = "QuizConfig.from_yaml"
                    /\ built.raised = "FromYamlException"
                    /\ built.cause = "QCExactlyOneOfStemOrOverride"

\* a question_file without '/' together with an override given directly
C21_Witness ==
    /\ built.call = "QuizConfig"
    /\ built.args.question_file = Str(<<"q", ".json">>)
    /\ built.args.stem.isnone
    /\ ~built.args.override.isnone
    /\ built.raised = "QCExactlyOneOfStemOrOverride"

SecretBuilt ==
    /\ built.call \in {"SecretConfig", "SecretConfig.from_yaml"}
    /\ built.status = "ok"

\* no sources were given: the constructor got None, or the mapping has no
\* 'sources' entry or an empty one
NoSourcesGiven ==
    /\ built.call = "SecretConfig.from_yaml" => ~built.args.isstr
    /\ built.args.sources.isnone \/ built.args.sources.list = <<>>

\* C22: every SecretConfig built by the constructor or by from_yaml has a
\* sources list that is not empty; when no sources were given it is the one
\* EnvVar source named after the secret.
C22_SourcesNeverEmpty ==
    SecretBuilt =>
      /\ built.obj.sources # <<>>
      /\ NoSourcesGiven =>
           built.obj.sources = <<EnvVarSecretSource(built.obj.secret_name)>>

\* C24: every tool config that extract_tool_configs builds from a YAML
\* entry, the base ToolConfig or a registered variant, is stored under a kind
\* that equals the last dot-separated segment of its tool_name.
C24_KindIsLastSegmentOfToolName ==
    (built.call = "extract_tool_configs" /\ built.status = "ok") =>
        LET segs == Segments(built.obj.tool_name) IN
        built.obj.kind = segs[Len(segs)]

\* ------------------------------------------------------------------------
\* Claims about the start-up sequence
\* ------------------------------------------------------------------------
\* C26: for an agent declared without model_name, once the start-up sequence
\* has run resolve_environment successfully, the model_name of the agent
\* equals the resolved value of DEFAULT_AGENT_MODEL, the value that
\* get_environment returns from then on.
C26_AgentModelIsResolvedDefault ==
    (/\ agent_config.built
     /\ agent_config.declared.isnone
     /\ envResult.status = "ok")
        => agent_config.model_name =
               get_environment(environment, DEFAULT_AGENT_MODEL)

\* ------------------------------------------------------------------------
\* Claims about get_agent_from_configs
\* ------------------------------------------------------------------------
\* C27: at most one agent is built for an agent_config.id; once an agent
\* exists for an id, a call with that id returns that agent and builds
\* nothing, whatever the agent config and tool configs passed with it.
C27_OneAgentPerId ==
    [][/\ \A id \in AgentIds : agents_built'[id] <= 1
       /\ (agentCall' # agentCall /\ agentCall'.args.id \in DOMAIN _agent_cache)
          => /\ agentCall'.status = "ok"
             /\ agentCall'.returned = _agent_cache[agentCall'.args.id]
             /\ _agent_cache' = _agent_cache
             /\ agents_built' = agents_built]_vars

\* a call with another model name and other tools got the agent built first
C27_Witness ==
    /\ agentCall.status = "ok"
    /\ agentCall.hit
    /\ agentCall.args.model_name # agentCall.returned.model_name
    /\ agentCall.args.tool_kinds # agentCall.returned.tool_kinds
    /\ ~agentCall.args.prompt_readable

\* ------------------------------------------------------------------------
\* Claims about the cached collections and reload_configurations
\* ------------------------------------------------------------------------
Collections == {"oidc", "rooms", "comps"}

\* the property that reads each cache
Property ==
    [oidc |-> "oidc_auth_system_configs", rooms |-> "room_configs",
     comps |-> "completion_configs"]

\* the three cache attributes of the installation
Caches ==
    [oidc |-> _oidc_auth_system_configs, rooms |-> _room_configs,
     comps |-> _completion_configs]

\* what the three loaders give on the files as they are now
Fresh ==
    [oidc |-> _load_oidc_auth_system_configs(oidcFs),
     rooms |-> _load_room_configs(roomFs),
     comps |-> _load_completion_configs(compFs)]

\* C6 as stated: for each of the three properties the loader runs at most
\* once between two reload_configurations calls, and every access returns
\* what the first access since the last reload returned.
C6_LoadedOnceThenCached ==
    [][\A c \in Collections :
          op'.name = Property[c] =>
              /\ op'.loader_ran => ~loaderRan[c]
              /\ firstAccess[c].seen =>
                    /\ op'.status = firstAccess[c].status
                    /\ op'.returned = firstAccess[c].returned]_vars

\* C6 amended: once a cache is set, by an access whose loader returned or by
\* a reload, nothing but reload_configurations changes it, no access runs the
\* loader, and every access returns the cached content, which is the content
\* of the first access if that access returned; the files do not matter.
C6_CachedUntilReload ==
    [][\A c \in Collections :
          /\ (Caches[c].set /\ op'.name # "reload_configurations") =>
                /\ Caches'[c] = Caches[c]
                /\ op'.name = Property[c] =>
                      /\ ~op'.loader_ran
                      /\ op'.status = "ok"
                      /\ op'.returned = Caches[c].val
          /\ (/\ op'.name = Property[c]
              /\ firstAccess[c].seen
              /\ firstAccess[c].status = "ok") =>
                /\ ~op'.loader_ran
                /\ op'.status = "ok"
                /\ op'.returned = firstAccess[c].returned]_vars

\* room_configs was read, the files under room_paths were then changed so
\* that discovery gives something else, and a later read without a reload in
\* between returned what the first read returned, without running the loader
C6_Witness ==
    /\ op.name = "room_configs"
    /\ op.status = "ok"
    /\ ~op.loader_ran
    /\ loaderRan.rooms
    /\ firstAccess.rooms.status = "ok"
    /\ firstAccess.rooms.returned = op.returned
    /\ Fresh.rooms.status = "ok"
    /\ Fresh.rooms.configs # op.returned

\* C29: an access of one of the three properties while its cache is unset
\* runs the loader; when the loader raises, the access raises, the cache
\* stays unset and the other two caches are untouched; when the files are
\* valid by then, the access succeeds and caches what the loader gave.
C29_FailedLazyLoadIsNotCached ==
    [][\A c \in Collections :
          (op'.name = Property[c] /\ ~Caches[c].set) =>
              /\ op'.loader_ran
              /\ Fresh[c].status # "ok" =>
                    /\ op'.status = "raise"
                    /\ ~Caches'[c].set
                    /\ \A d \in Collections \ {c} : Caches'[d] = Caches[d]
              /\ Fresh[c].status = "ok" =>
                    /\ op'.status = "ok"
                    /\ Caches'[c] = Cached(Fresh[c].configs)]_vars

\* the first access of room_configs raised; with no reload in between, a
\* later access ran the loader again and returned
C29_Witness ==
    /\ firstAccess.rooms.seen
    /\ firstAccess.rooms.status = "raise"
    /\ ~reloadedRooms.set
    /\ op.name = "room_configs"
    /\ op.status = "ok"
    /\ op.loader_ran
    /\ _room_configs.set

\* C7: a room_configs access made after a reload_configurations call has
\* returned gives exactly what room discovery gave in the latest call that
\* returned: that scan's ids with that scan's content and nothing else.
C7_AccessReflectsLatestSuccessfulReload ==
    (op.name = "room_configs" /\ reloadedRooms.set)
        => /\ op.status = "ok"
           /\ op.returned = reloadedRooms.val

\* C8: when a reload_configurations call ends, by returning or by raising,
\* either all three caches hold what this call's loaders gave or all three
\* are as they were before the call.
C8_ReloadAllOrNothing ==
    [][op'.name = "reload_configurations" =>
          \/ \A c \in Collections : Caches'[c] = Caches[c]
          \/ \A c \in Collections :
                /\ Fresh[c].status = "ok"
                /\ Caches'[c] = Cached(Fresh[c].configs)]_vars

\* C9: a reader that reads the three properties while reload_configurations
\* is running sees three collections loaded by the same reload.
C9_NoMixedGenerations ==
    (observed.read /\ observed.during)
        => /\ observed.oidc = observed.rooms
           /\ observed.rooms = observed.comps

\* C10: a caller adding, removing or rebinding keys in a map it got from
\* room_configs or completion_configs leaves both cached maps as they were,
\* and every access of a set cache returns exactly the cached keys and values.
C10_CallerMutationLeavesCache ==
    [][/\ op'.name = "caller_mutation" =>
             /\ _room_configs' = _room_configs
             /\ _completion_configs' = _completion_configs
       /\ (op'.name = "room_configs" /\ _room_configs.set) =>
             /\ op'.status = "ok"
             /\ op'.returned = _room_configs.val
       /\ (op'.name = "completion_configs" /\ _completion_configs.set) =>
             /\ op'.status = "ok"
             /\ op'.returned = _completion_configs.val]_vars

\* a caller changed the map it got from room_configs, and the next
\* room_configs access returned the cached map, loading nothing
C10_Witness ==
    /\ op.name = "room_configs"
    /\ op.after_mutation
    /\ op.status = "ok"
    /\ ~op.loader_ran
    /\ _room_configs.set
    /\ op.returned = _room_configs.val
    /\ DOMAIN op.returned # {}

====
